---- MODULE Spec2Model ----
(***************************************************************************)
(* Model of the drillhole validation engine                                *)
(* (src/services/validationEngine.ts, first definition of each function).  *)
(*                                                                         *)
(* Numbers are fixed-point, in hundredths: 100 (metres) is 10000 and the   *)
(* engine's tolerance 0.01 is 1.  A cell value is a record                 *)
(*   [k |-> "num" | "str" | "undef" | "null", n |-> Int, s |-> STRING].    *)
(* A row is a function from its field names to cell values; a field that   *)
(* is not in the row's domain reads as undefined, as in JavaScript.        *)
(***************************************************************************)
EXTENDS Integers, Sequences, FiniteSets, TLC

VARIABLES
    collarData,    \* the caller's Collar array
    surveyData,    \* the caller's Survey array
    intervalData,  \* the caller's interval arrays, by table type
    configs,       \* the caller's TableConfig array
    libraries,     \* the caller's CodeLibrary array
    snapshot,      \* the inputs as they were handed to the first run
    allErrors,     \* runValidation's accumulator / a validator's result
    summary,       \* the ValidationSummary of the run in progress
    firstSummary,  \* the ValidationSummary of the previous run
    runNo,         \* 1 or 2: which run over the same inputs
    tbl,           \* table type argument of a validator called on its own
    pc             \* position inside runValidation

vars == <<collarData, surveyData, intervalData, configs, libraries, snapshot,
          allErrors, summary, firstSummary, runNo, tbl, pc>>

-----------------------------------------------------------------------------
(* Cell values                                                             *)

Num(n) == [k |-> "num", n |-> n, s |-> ""]
Str(s) == [k |-> "str", n |-> 0, s |-> s]
Undef  == [k |-> "undef", n |-> 0, s |-> ""]
Null   == [k |-> "null", n |-> 0, s |-> ""]

\* row[name] in JavaScript
Get(row, name) == IF name \in DOMAIN row THEN row[name] ELSE Undef

\* parseFloat on the strings the model uses: a numeric string parses to its
\* number, anything else to NaN.
ParseStr(s) ==
    CASE s = "105"  -> [nan |-> FALSE, n |-> 10500]
      [] s = "50"   -> [nan |-> FALSE, n |-> 5000]
      [] s = "-5"   -> [nan |-> FALSE, n |-> -500]
      [] OTHER      -> [nan |-> TRUE,  n |-> 0]

parseFloat(val) ==
    CASE val.k = "num" -> [nan |-> FALSE, n |-> val.n]
      [] val.k = "str" -> ParseStr(val.s)
      [] OTHER         -> [nan |-> TRUE, n |-> 0]

\* mutant: a value that does not parse counts as 1
safeFloat_NaNIsOne(val) ==
    LET parsed == parseFloat(val) IN IF parsed.nan THEN 100 ELSE parsed.n

safeFloat(val) ==
    LET parsed == parseFloat(val) IN IF parsed.nan THEN 0 ELSE parsed.n

\* JavaScript truthiness of a cell value
Truthy(val) ==
    CASE val.k = "num" -> val.n # 0
      [] val.k = "str" -> val.s # ""
      [] OTHER         -> FALSE

safeSiteId(row) ==
    IF Truthy(Get(row, "SITE_ID")) THEN Get(row, "SITE_ID")
    ELSE IF Truthy(Get(row, "HOLE_ID")) THEN Get(row, "HOLE_ID")
    ELSE IF Truthy(Get(row, "HOLEID")) THEN Get(row, "HOLEID")
    ELSE IF Truthy(Get(row, "id")) THEN Get(row, "id")
    ELSE Str("Unknown")

-----------------------------------------------------------------------------
(* Table types, severities                                                 *)

COLLAR == "COLLAR"
SURVEY == "SURVEY"

\* the order of the validateGenericInterval calls in runValidation
IntervalTables ==
    <<"LITHOLOGY", "ASSAY", "MINERALIZATION", "OXIDATION", "GEOTECH",
      "RQD", "VEIN", "ALTERATION", "DENSITY">>

IntervalTableSet == {IntervalTables[i] : i \in 1..Len(IntervalTables)}

CRITICAL == "CRITICAL"
WARNING  == "WARNING"
INFO     == "INFO"

\* A ValidationError.  id is the list of the parts the code joins with '-'
\* (so id.split('-')[0] is its head); message is the template's name and
\* its interpolated arguments.
Err(id, table, rowId, siteId, column, message, severity, type) ==
    [id |-> id, table |-> table, rowId |-> rowId, siteId |-> siteId,
     column |-> column, message |-> message, severity |-> severity,
     type |-> type]

Range(seq) == {seq[i] : i \in 1..Len(seq)}

\* ColumnConfig: validation.range and validation.lookup are optional, and
\* so are min and max inside a range rule.
NoRange == [has |-> FALSE, hasMin |-> FALSE, min |-> 0,
            hasMax |-> FALSE, max |-> 0, strict |-> FALSE]
NoLookup == [has |-> FALSE, libraryId |-> "", caseSensitive |-> FALSE]

Col(columnName, isSchemaRequired, isMandatory, type, range, lookup) ==
    [columnName |-> columnName, isSchemaRequired |-> isSchemaRequired,
     isMandatory |-> isMandatory, type |-> type,
     range |-> range, lookup |-> lookup]

TableConfig(tableType, columns) == [tableType |-> tableType, columns |-> columns]

-----------------------------------------------------------------------------
(* 0. Structure validation                                                 *)

\* mutant: the header is collected from every row
availableKeys_AllRows(rows) == UNION {DOMAIN rows[i] : i \in 1..Len(rows)}

\* new Set(Object.keys(rows[0]))
availableKeys(rows) == DOMAIN rows[1]

\* mutant: a missing column is reported for information only
validateStructure_Info(rows, config) ==
    IF Len(rows) = 0 THEN <<>>
    ELSE
        LET cols == SelectSeq(config.columns,
                              LAMBDA col : col.isSchemaRequired
                                           /\ col.columnName \notin availableKeys(rows))
        IN [i \in 1..Len(cols) |->
               Err(<<"struct", config.tableType, cols[i].columnName>>,
                   config.tableType, "HEADER", Str("SYSTEM"), cols[i].columnName,
                   <<"Missing Column Header", Str(cols[i].columnName)>>,
                   INFO, "STRUCTURE")]

validateStructure(rows, config) ==
    IF Len(rows) = 0 THEN <<>>
    ELSE
        LET cols == config.columns
            Missing(i) == cols[i].isSchemaRequired
                          /\ cols[i].columnName \notin availableKeys(rows)
            E(i) == Err(<<"struct", config.tableType, cols[i].columnName>>,
                        config.tableType, "HEADER", Str("SYSTEM"),
                        cols[i].columnName,
                        <<"Missing Column Header", Str(cols[i].columnName)>>,
                        CRITICAL, "STRUCTURE")
            RECURSIVE Walk(_)
            Walk(i) == IF i > Len(cols) THEN <<>>
                       ELSE (IF Missing(i) THEN <<E(i)>> ELSE <<>>) \o Walk(i + 1)
        IN Walk(1)

-----------------------------------------------------------------------------
(* 1. Integrity validation                                                 *)

\* mutant: the membership test uses the resolved site identifier
isOrphan_Resolved(validSiteIds, row) == safeSiteId(row) \notin validSiteIds

\* !validSiteIds.has(row.SITE_ID)
isOrphan(validSiteIds, row) == Get(row, "SITE_ID") \notin validSiteIds

\* mutant: every orphan is reported under the Survey table
validateIntegrity_AsSurvey(collars, rows, tableType) ==
    LET validSiteIds == {Get(collars[i], "SITE_ID") : i \in 1..Len(collars)}
        E(row) == Err(<<"int", tableType, Get(row, "id").s>>,
                      SURVEY, Get(row, "id").s, safeSiteId(row), "SITE_ID",
                      <<"Orphan Record", safeSiteId(row)>>,
                      CRITICAL, "INTEGRITY")
    IN [i \in 1..Len(SelectSeq(rows, LAMBDA r : isOrphan(validSiteIds, r))) |->
           E(SelectSeq(rows, LAMBDA r : isOrphan(validSiteIds, r))[i])]

validateIntegrity(collars, rows, tableType) ==
    LET validSiteIds == {Get(collars[i], "SITE_ID") : i \in 1..Len(collars)}
        E(row) == Err(<<"int", tableType, Get(row, "id").s>>,
                      tableType, Get(row, "id").s, safeSiteId(row), "SITE_ID",
                      <<"Orphan Record", safeSiteId(row)>>,
                      CRITICAL, "INTEGRITY")
        RECURSIVE Walk(_)
        Walk(i) == IF i > Len(rows) THEN <<>>
                   ELSE (IF isOrphan(validSiteIds, rows[i])
                         THEN <<E(rows[i])>> ELSE <<>>) \o Walk(i + 1)
    IN Walk(1)

-----------------------------------------------------------------------------
(* 2. EOH consistency                                                      *)

TOLERANCE == 1

\* String(val), also what a template literal or an object key makes of a
\* value: a number prints without trailing zeros
ToStr(val) ==
    CASE val.k = "str"   -> val.s
      [] val.k = "num"   ->
           (IF val.n < 0 THEN "-" ELSE "")
           \o ToString((IF val.n < 0 THEN -val.n ELSE val.n) \div 100)
           \o (LET c == (IF val.n < 0 THEN -val.n ELSE val.n) % 100 IN
               IF c = 0 THEN ""
               ELSE IF c % 10 = 0 THEN "." \o ToString(c \div 10)
               ELSE IF c < 10 THEN ".0" \o ToString(c)
               ELSE "." \o ToString(c))
      [] val.k = "undef" -> "undefined"
      [] OTHER           -> "null"

\* mutant: a hole without END_DEPTH is measured by its TOTAL_DEPTH
collarMapGet_TotalDepth(collars, siteId, i) ==
    LET own == {j \in 1..i : Get(collars[j], "SITE_ID") = siteId}
        last == collars[CHOOSE j \in own : \A k \in own : k <= j]
    IN IF own = {} THEN [found |-> FALSE, n |-> 0]
       ELSE [found |-> TRUE,
             n |-> safeFloat(IF "END_DEPTH" \in DOMAIN last
                             THEN Get(last, "END_DEPTH") ELSE Get(last, "TOTAL_DEPTH"))]

\* new Map(collars.map(c => [c.SITE_ID, safeFloat(c.END_DEPTH)])).get(siteId):
\* a later Collar row with the same SITE_ID overwrites an earlier one.
RECURSIVE collarMapGet(_, _, _)
collarMapGet(collars, siteId, i) ==
    IF i = 0 THEN [found |-> FALSE, n |-> 0]
    ELSE IF Get(collars[i], "SITE_ID") = siteId
         THEN [found |-> TRUE, n |-> safeFloat(Get(collars[i], "END_DEPTH"))]
         ELSE collarMapGet(collars, siteId, i - 1)

collarMap(collars, siteId) == collarMapGet(collars, siteId, Len(collars))

\* mutant: the bottom-coverage pass visits every row, not every site
siteKeys_PerRow(rows, i) ==
    [j \in 1..Len(rows) |-> Get(rows[j], "SITE_ID")]

\* the keys of maxToBySite in insertion order: each SITE_ID at its first row
RECURSIVE siteKeys(_, _)
siteKeys(rows, i) ==
    IF i > Len(rows) THEN <<>>
    ELSE LET sid == Get(rows[i], "SITE_ID") IN
         (IF \E j \in 1..(i - 1) : Get(rows[j], "SITE_ID") = sid
          THEN <<>> ELSE <<sid>>) \o siteKeys(rows, i + 1)

\* mutant: the first DEPTH_TO of a site is kept, not the deepest
maxToBySite_First(rows, siteId, i) ==
    LET own == {j \in 1..i : Get(rows[j], "SITE_ID") = siteId}
    IN IF own = {} THEN [found |-> FALSE, n |-> 0]
       ELSE [found |-> TRUE,
             n |-> safeFloat(Get(rows[CHOOSE j \in own : \A k \in own : j <= k],
                                 "DEPTH_TO"))]

\* maxToBySite.get(siteId) after the loop over the rows
RECURSIVE maxToBySite(_, _, _)
maxToBySite(rows, siteId, i) ==
    IF i = 0 THEN [found |-> FALSE, n |-> 0]
    ELSE LET prevMax == maxToBySite(rows, siteId, i - 1)
             toVal   == safeFloat(Get(rows[i], "DEPTH_TO"))
         IN IF Get(rows[i], "SITE_ID") # siteId THEN prevMax
            ELSE IF ~prevMax.found \/ toVal > prevMax.n
                 THEN [found |-> TRUE, n |-> toVal]
                 ELSE prevMax

\* mutant: the tolerance boundary itself counts as exceeded
exceedsEOH_AtTolerance(collars, row) ==
    LET maxDepth == collarMap(collars, Get(row, "SITE_ID"))
        toVal    == safeFloat(Get(row, "DEPTH_TO"))
    IN maxDepth.found /\ maxDepth.n > 0 /\ toVal >= maxDepth.n + TOLERANCE

\* the guard of the per-row error
exceedsEOH(collars, row) ==
    LET maxDepth == collarMap(collars, Get(row, "SITE_ID"))
        toVal    == safeFloat(Get(row, "DEPTH_TO"))
    IN maxDepth.found /\ maxDepth.n > 0 /\ toVal > maxDepth.n + TOLERANCE

\* the guard of the bottom-coverage finding
shortOfEOH(collars, rows, siteId) ==
    LET total   == collarMap(collars, siteId)
        deepest == maxToBySite(rows, siteId, Len(rows))
    IN total.found /\ deepest.n < total.n - TOLERANCE

validateEOH(collars, rows, tableType) ==
    LET overSites == {Get(rows[i], "SITE_ID") :
                        i \in {j \in 1..Len(rows) : exceedsEOH(collars, rows[j])}}
        RowErr(row) ==
            Err(<<"eoh", tableType, Get(row, "id").s>>,
                tableType, Get(row, "id").s, safeSiteId(row), "DEPTH_TO",
                <<"Depth Exceeded", Get(row, "DEPTH_TO"),
                  Num(collarMap(collars, Get(row, "SITE_ID")).n)>>,
                CRITICAL, "LOGIC")
        BotErr(siteId) ==
            Err(<<"eohbot", tableType, ToStr(siteId)>>,
                tableType, "", siteId, "DEPTH_TO",
                <<"Bottom coverage",
                  Num(maxToBySite(rows, siteId, Len(rows)).n),
                  Num(collarMap(collars, siteId).n)>>,
                IF siteId \in overSites THEN WARNING ELSE CRITICAL, "LOGIC")
        RECURSIVE PerRow(_)
        PerRow(i) == IF i > Len(rows) THEN <<>>
                     ELSE (IF exceedsEOH(collars, rows[i])
                           THEN <<RowErr(rows[i])>> ELSE <<>>) \o PerRow(i + 1)
        keys == siteKeys(rows, 1)
        RECURSIVE PerSite(_)
        PerSite(i) == IF i > Len(keys) THEN <<>>
                      ELSE (IF shortOfEOH(collars, rows, keys[i])
                            THEN <<BotErr(keys[i])>> ELSE <<>>) \o PerSite(i + 1)
    IN PerRow(1) \o PerSite(1)

-----------------------------------------------------------------------------
(* 3. Interval logic                                                       *)

\* the property names that JavaScript treats as array indices, which
\* Object.entries lists first and in ascending numeric order
ArrayIndex(s) ==
    CASE s = "7"  -> 7
      [] s = "12" -> 12
      [] OTHER    -> -1

\* keys of `grouped` in the order of their creation
RECURSIVE groupedKeys(_, _)
groupedKeys(rows, i) ==
    IF i > Len(rows) THEN <<>>
    ELSE LET sId == ToStr(safeSiteId(rows[i])) IN
         (IF \E j \in 1..(i - 1) : ToStr(safeSiteId(rows[j])) = sId
          THEN <<>> ELSE <<sId>>) \o groupedKeys(rows, i + 1)

\* ascending order of a set of array indices
RECURSIVE ascending(_)
ascending(S) ==
    IF S = {} THEN <<>>
    ELSE LET m == CHOOSE x \in S : \A y \in S : ArrayIndex(x) <= ArrayIndex(y)
         IN <<m>> \o ascending(S \ {m})

\* Object.entries(grouped): index-like keys ascending, then the others in
\* creation order
groupedEntries(rows) ==
    LET keys == groupedKeys(rows, 1)
    IN ascending({k \in Range(keys) : ArrayIndex(k) >= 0})
       \o SelectSeq(keys, LAMBDA k : ArrayIndex(k) < 0)

\* grouped[sId]: the rows of one site, in table order
siteRowsOf(rows, sId) == SelectSeq(rows, LAMBDA r : ToStr(safeSiteId(r)) = sId)

\* mutant: a row is inserted in front of the rows it ties with
RECURSIVE insertByFrom_Unstable(_, _)
insertByFrom_Unstable(sorted, row) ==
    IF sorted = <<>> THEN <<row>>
    ELSE LET last == sorted[Len(sorted)] IN
         IF safeFloat(Get(last, "DEPTH_FROM")) - safeFloat(Get(row, "DEPTH_FROM")) >= 0
         THEN insertByFrom_Unstable(SubSeq(sorted, 1, Len(sorted) - 1), row) \o <<last>>
         ELSE sorted \o <<row>>

\* insertion of a row into a list sorted by DEPTH_FROM, behind its equals
RECURSIVE insertByFrom(_, _)
insertByFrom(sorted, row) ==
    IF sorted = <<>> THEN <<row>>
    ELSE LET last == sorted[Len(sorted)] IN
         IF safeFloat(Get(last, "DEPTH_FROM")) - safeFloat(Get(row, "DEPTH_FROM")) > 0
         THEN insertByFrom(SubSeq(sorted, 1, Len(sorted) - 1), row) \o <<last>>
         ELSE sorted \o <<row>>

\* mutant: the rows of a site are walked in table order
sortByFrom_TableOrder(siteRows) == siteRows

\* siteRows.sort((a, b) => safeFloat(a.DEPTH_FROM) - safeFloat(b.DEPTH_FROM)),
\* a stable sort
RECURSIVE sortByFrom(_)
sortByFrom(siteRows) ==
    IF siteRows = <<>> THEN <<>>
    ELSE insertByFrom(sortByFrom(SubSeq(siteRows, 1, Len(siteRows) - 1)),
                      siteRows[Len(siteRows)])

\* mutant: the table itself is sorted, site by site, instead of the copies
rowsAfterIntervals_InPlace(rows) ==
    LET keys == groupedEntries(rows)
        RECURSIVE Cat(_)
        Cat(k) == IF k > Len(keys) THEN <<>>
                  ELSE sortByFrom(siteRowsOf(rows, keys[k])) \o Cat(k + 1)
    IN Cat(1)

\* what validateIntervals leaves in the caller's array: the rows are pushed
\* into the fresh arrays of `grouped` and only those are sorted
rowsAfterIntervals(rows) == rows

\* mutant: the cells are compared as they are, not as numbers
isZeroLength_Raw(current) == Get(current, "DEPTH_FROM") = Get(current, "DEPTH_TO")

\* from === to
isZeroLength(current) ==
    safeFloat(Get(current, "DEPTH_FROM")) = safeFloat(Get(current, "DEPTH_TO"))

\* mutant: an interval without length counts as inverted
isInverted_OrEqual(current) ==
    safeFloat(Get(current, "DEPTH_FROM")) >= safeFloat(Get(current, "DEPTH_TO"))

\* from > to
isInverted(current) ==
    safeFloat(Get(current, "DEPTH_FROM")) > safeFloat(Get(current, "DEPTH_TO"))

validateIntervals(rows, tableType) ==
    LET keys == groupedEntries(rows)
        Site(k) ==
            LET siteId   == keys[k]
                siteRows == sortByFrom(siteRowsOf(rows, siteId))
                E(prefix, current, column, message, severity) ==
                    Err(<<prefix, tableType, Get(current, "id").s>>, tableType,
                        Get(current, "id").s, Str(siteId), column, message,
                        severity, "INTERVAL")
                RowErrs(i) ==
                    LET current == siteRows[i]
                        from == safeFloat(Get(current, "DEPTH_FROM"))
                        to   == safeFloat(Get(current, "DEPTH_TO"))
                        prevTo == safeFloat(Get(siteRows[i - 1], "DEPTH_TO"))
                    IN (IF isZeroLength(current)
                        THEN <<E("zero", current, "DEPTH_TO",
                                 <<"Zero Length", Num(from), Num(to)>>, WARNING)>>
                        ELSE <<>>)
                       \o (IF isInverted(current)
                           THEN <<E("inv", current, "DEPTH_FROM",
                                    <<"Inverted Interval", Num(from), Num(to)>>, CRITICAL)>>
                           ELSE <<>>)
                       \o (IF i > 1 /\ from < prevTo
                           THEN <<E("ovl", current, "DEPTH_FROM",
                                    <<"Overlap", Num(from), Num(prevTo)>>, CRITICAL)>>
                           ELSE IF i > 1 /\ from > prevTo
                           THEN <<E("gap", current, "DEPTH_FROM",
                                    <<"Gap", Num(prevTo), Num(from)>>, WARNING)>>
                           ELSE <<>>)
                RECURSIVE Walk(_)
                Walk(i) == IF i > Len(siteRows) THEN <<>>
                           ELSE RowErrs(i) \o Walk(i + 1)
            IN Walk(1)
        RECURSIVE Sites(_)
        Sites(k) == IF k > Len(keys) THEN <<>> ELSE Site(k) \o Sites(k + 1)
    IN Sites(1)

-----------------------------------------------------------------------------
(* 4. Value and library validation                                         *)

\* String.prototype.toUpperCase on the strings the model uses
toUpperCase(s) ==
    CASE s = "qz"   -> "QZ"
      [] s = "Qz"   -> "QZ"
      [] s = "xx"   -> "XX"
      [] s = "null" -> "NULL"
      [] s = "abc"  -> "ABC"
      [] OTHER      -> s

\* mutant: an id that names no library falls back to the first library
findLibrary_FirstFallback(libs, libraryId) ==
    LET hits == {i \in 1..Len(libs) : libs[i].id = libraryId}
    IN IF hits = {} THEN (IF libs = <<>> THEN 0 ELSE 1)
       ELSE CHOOSE i \in hits : \A j \in hits : i <= j

\* libraries.find((l) => l.id === libraryId): index of the first match, or 0
findLibrary(libs, libraryId) ==
    LET hits == {i \in 1..Len(libs) : libs[i].id = libraryId}
    IN IF hits = {} THEN 0 ELSE CHOOSE i \in hits : \A j \in hits : i <= j

\* mutant: null counts as a value
isMissing_NoNull(value) ==
    value.k = "undef" \/ (value.k = "str" /\ value.s = "")

\* value === undefined || value === '' || value === null
isMissing(value) ==
    value.k = "undef" \/ value.k = "null" \/ (value.k = "str" /\ value.s = "")

\* value === undefined || value === ''
isSkipped(value) ==
    value.k = "undef" \/ (value.k = "str" /\ value.s = "")

\* mutant: a range rule is evaluated whatever the type of the column
rangeChecked_AnyType(colConfig) == colConfig.range.has

\* colConfig.validation?.range && colConfig.type !== 'string'
rangeChecked(colConfig) == colConfig.range.has /\ colConfig.type # "string"

\* the Set of the library's codes, upper-cased unless caseSensitive
validCodes(library, caseSensitive) ==
    {IF caseSensitive THEN library.items[i].code
     ELSE toUpperCase(library.items[i].code) : i \in 1..Len(library.items)}

\* mutant: the value is compared as written
checkVal_AsWritten(value, caseSensitive) == ToStr(value)

\* caseSensitive ? String(value) : String(value).toUpperCase()
checkVal(value, caseSensitive) ==
    IF caseSensitive THEN ToStr(value) ELSE toUpperCase(ToStr(value))

\* the errors of one cell
cellErrors(row, colConfig, tableType, libs) ==
    LET value == Get(row, colConfig.columnName)
        sId   == safeSiteId(row)
        E(prefix, message, severity) ==
            Err(<<prefix, tableType, Get(row, "id").s, colConfig.columnName>>,
                tableType, Get(row, "id").s, sId, colConfig.columnName,
                message, severity, "VALUE")
        numVal == safeFloat(value)
        range  == colConfig.range
        sev    == IF range.strict THEN CRITICAL ELSE WARNING
        lookup == colConfig.lookup
        lib    == findLibrary(libs, lookup.libraryId)
    IN IF colConfig.isMandatory /\ isMissing(value)
       THEN <<E("req", <<"Missing Value", Str(colConfig.columnName)>>, CRITICAL)>>
       ELSE IF isSkipped(value) THEN <<>>
       ELSE (IF rangeChecked(colConfig)
             THEN (IF range.hasMin /\ numVal < range.min
                   THEN <<E("min", <<"Value Too Low", Num(numVal), Num(range.min)>>, sev)>>
                   ELSE <<>>)
                  \o (IF range.hasMax /\ numVal > range.max
                      THEN <<E("max", <<"Value Too High", Num(numVal), Num(range.max)>>, sev)>>
                      ELSE <<>>)
             ELSE <<>>)
            \o (IF lookup.has /\ colConfig.type = "string" /\ lib # 0
                   /\ checkVal(value, lookup.caseSensitive)
                          \notin validCodes(libs[lib], lookup.caseSensitive)
                THEN <<E("lookup", <<"Invalid Code", value, Str(libs[lib].name)>>, CRITICAL)>>
                ELSE <<>>)

validateValues(rows, config, libs) ==
    LET cols == config.columns
        RECURSIVE Cells(_, _)
        Cells(r, c) ==
            IF r > Len(rows) THEN <<>>
            ELSE IF c > Len(cols) THEN Cells(r + 1, 1)
            ELSE cellErrors(rows[r], cols[c], config.tableType, libs) \o Cells(r, c + 1)
    IN Cells(1, 1)

-----------------------------------------------------------------------------
(* Collar depths, Survey depths                                            *)

\* mutant: a depth of zero is accepted
invalidCollarDepth_Negative(c) == safeFloat(Get(c, "END_DEPTH")) < 0

\* depth <= 0
invalidCollarDepth(c) == safeFloat(Get(c, "END_DEPTH")) <= 0

validateCollarDepths(collars) ==
    LET E(c) == Err(<<"collar", "depth", Get(c, "id").s>>, COLLAR,
                    Get(c, "id").s, Get(c, "SITE_ID"), "END_DEPTH",
                    <<"Invalid Collar depth", Get(c, "END_DEPTH")>>,
                    CRITICAL, "VALUE")
        RECURSIVE Walk(_)
        Walk(i) == IF i > Len(collars) THEN <<>>
                   ELSE (IF invalidCollarDepth(collars[i])
                         THEN <<E(collars[i])>> ELSE <<>>) \o Walk(i + 1)
    IN Walk(1)

\* ToNumber, as the > operator applies it to a cell that is not a number
ToNumber(val) ==
    CASE val.k = "num"  -> [nan |-> FALSE, n |-> val.n]
      [] val.k = "null" -> [nan |-> FALSE, n |-> 0]
      [] val.k = "str" /\ val.s = "" -> [nan |-> FALSE, n |-> 0]
      [] val.k = "str" /\ val.s # "" -> ParseStr(val.s)
      [] OTHER          -> [nan |-> TRUE, n |-> 0]

\* mutant: the Survey depth is allowed the tolerance of the interval check
surveyOver_WithTolerance(collars, row) ==
    LET max == collarMap(collars, Get(row, "SITE_ID"))
        depth == ToNumber(Get(row, "DEPTH"))
    IN max.found /\ ~depth.nan /\ depth.n > max.n + TOLERANCE

\* max !== undefined && row.DEPTH > max
surveyOver(collars, row) ==
    LET max == collarMap(collars, Get(row, "SITE_ID"))
        depth == ToNumber(Get(row, "DEPTH"))
    IN max.found /\ ~depth.nan /\ depth.n > max.n

\* the inline Survey loop of runValidation
surveyDepthErrors(collars, rows) ==
    LET E(row) == Err(<<"eoh", "surv", Get(row, "id").s>>, SURVEY,
                      Get(row, "id").s, safeSiteId(row), "DEPTH",
                      <<"Survey Depth", Get(row, "DEPTH"),
                        Num(collarMap(collars, Get(row, "SITE_ID")).n)>>,
                      CRITICAL, "LOGIC")
        RECURSIVE Walk(_)
        Walk(i) == IF i > Len(rows) THEN <<>>
                   ELSE (IF surveyOver(collars, rows[i]) THEN <<E(rows[i])>> ELSE <<>>)
                        \o Walk(i + 1)
    IN Walk(1)

-----------------------------------------------------------------------------
(* Aggregation                                                             *)

\* an element of the key array as Array.prototype.join prints it
KeyStr(val) == IF val.k \in {"undef", "null"} THEN "" ELSE ToStr(val)

\* mutant: the site is left out of the key
groupKey_NoSite(err) ==
    <<err.table, err.column, err.type, err.severity, err.id[1]>>

\* [table, siteId, column || '', type, severity, category].join('|')
groupKey(err) ==
    <<err.table, KeyStr(err.siteId), err.column, err.type, err.severity, err.id[1]>>

\* mutant: the row ids are joined without a separator
RECURSIVE join_NoSeparator(_)
join_NoSeparator(rowIds) ==
    IF Len(rowIds) = 0 THEN ""
    ELSE rowIds[1] \o join_NoSeparator(Tail(rowIds))

\* rowIds.join(',')
RECURSIVE join(_)
join(rowIds) ==
    IF Len(rowIds) = 0 THEN ""
    ELSE IF Len(rowIds) = 1 THEN rowIds[1]
    ELSE rowIds[1] \o "," \o join(Tail(rowIds))

\* mutant: every error opens an entry of its own
mapKeys_PerError(errors, i) == [j \in 1..Len(errors) |-> groupKey(errors[j])]

\* the keys of the Map from error i on, in insertion order: a key is set at
\* the first error that has it
RECURSIVE mapKeys(_, _)
mapKeys(errors, i) ==
    IF i > Len(errors) THEN <<>>
    ELSE (IF \E j \in 1..(i - 1) : groupKey(errors[j]) = groupKey(errors[i])
          THEN <<>> ELSE <<groupKey(errors[i])>>) \o mapKeys(errors, i + 1)

groupErrors(errors) ==
    LET Members(key) == SelectSeq(errors, LAMBDA e : groupKey(e) = key)
        keys == mapKeys(errors, 1)
        Entry(key) ==
            LET members == Members(key)
                base    == members[1]
                count   == Len(members)
                rowIds  == [i \in 1..count |-> members[i].rowId]
            IN IF count > 1
               THEN [base EXCEPT
                       !.rowId = join(rowIds),
                       !.message =
                          IF base.id[1] = "eohbot"
                          THEN <<"bottom-of-hole coverage issues on site", Num(count), base.siteId>>
                          ELSE IF base.id[1] = "eoh"
                          THEN <<"intervals exceeded EOH on site", Num(count), base.siteId>>
                          ELSE <<"Multiple similar errors on site", base.siteId>>]
               ELSE base
    IN [k \in 1..Len(keys) |-> Entry(keys[k])]

\* mutant: the totals are counted on the list before aggregation
makeSummary_Raw(finalErrors) ==
    [totalErrors   |-> Len(SelectSeq(allErrors, LAMBDA e : e.severity = CRITICAL)),
     totalWarnings |-> Len(SelectSeq(allErrors, LAMBDA e : e.severity = WARNING)),
     errors        |-> finalErrors]

\* the ValidationSummary built from the aggregated list
makeSummary(finalErrors) ==
    [totalErrors   |-> Len(SelectSeq(finalErrors, LAMBDA e : e.severity = CRITICAL)),
     totalWarnings |-> Len(SelectSeq(finalErrors, LAMBDA e : e.severity = WARNING)),
     errors        |-> finalErrors]

\* configs.find(c => c.tableType === type): index of the first match, or 0
findConfig(cfgs, type) ==
    LET hits == {i \in 1..Len(cfgs) : cfgs[i].tableType = type}
    IN IF hits = {} THEN 0 ELSE CHOOSE i \in hits : \A j \in hits : i <= j

-----------------------------------------------------------------------------
(* The caller's tables                                                     *)

RowId(i) == "r" \o ToString(i)

\* the upstream import gives every row of a table its own id
WithIds(rows) == [i \in 1..Len(rows) |-> ("id" :> Str(RowId(i))) @@ rows[i]]

SeqsUpTo(S, n) == UNION {[1..m -> S] : m \in 0..n}

NoIntervals == [t \in IntervalTableSet |-> <<>>]

OnlyTable(t, rows) == [x \in IntervalTableSet |-> IF x = t THEN rows ELSE <<>>]

rowsOf(t) == CASE t = COLLAR -> collarData
               [] t = SURVEY -> surveyData
               [] OTHER      -> intervalData[t]

NoSummary == [totalErrors |-> 0, totalWarnings |-> 0, errors |-> <<>>]

-----------------------------------------------------------------------------
(* validateEOH called on its own                                           *)

MaxEohCollars == 2
MaxEohRows == 2

EohCollarRows ==
    {[SITE_ID |-> Str("A"), END_DEPTH |-> d] :
        d \in {Num(10000), Num(0), Num(-1000), Str("abc")}}
    \cup {[SITE_ID |-> Str("B"), END_DEPTH |-> Num(10000)]}

EohRows ==
    {[SITE_ID |-> Str("A"), DEPTH_TO |-> d] :
        d \in {Num(9998), Num(9999), Num(10000), Num(10001), Num(10002),
               Num(10500), Num(-500), Str("abc"), Str("105")}}
    \cup {[SITE_ID |-> Str("B"), DEPTH_TO |-> d] : d \in {Num(9998), Num(10500)}}
    \cup {[SITE_ID |-> Str("C"), DEPTH_TO |-> d] : d \in {Num(10500), Num(-500)}}

InitEOH ==
    /\ tbl = "LITHOLOGY"
    /\ collarData \in {WithIds(c) : c \in SeqsUpTo(EohCollarRows, MaxEohCollars)}
    /\ surveyData = <<>>
    /\ intervalData \in {OnlyTable(tbl, WithIds(r)) : r \in SeqsUpTo(EohRows, MaxEohRows)}
    /\ configs = <<>>
    /\ libraries = <<>>
    /\ snapshot = <<>>
    /\ allErrors = <<>>
    /\ summary = NoSummary
    /\ firstSummary = NoSummary
    /\ runNo = 1
    /\ pc = "callEOH"

CallValidateEOH ==
    /\ pc = "callEOH"
    /\ allErrors' = validateEOH(collarData, intervalData[tbl], tbl)
    /\ pc' = "eohDone"
    /\ UNCHANGED <<collarData, surveyData, intervalData, configs, libraries,
                   snapshot, summary, firstSummary, runNo, tbl>>

NextEOH == CallValidateEOH

SpecEOH == InitEOH /\ [][NextEOH]_vars

-----------------------------------------------------------------------------
(* Properties of validateEOH                                               *)

\* Stated from the inputs alone: the Collar row that decides a site's
\* END_DEPTH is the last one carrying that SITE_ID.
CollarIdx(siteId) == {i \in 1..Len(collarData) : Get(collarData[i], "SITE_ID") = siteId}
KnownSite(siteId) == CollarIdx(siteId) # {}
LastCollarOf(siteId) == collarData[CHOOSE i \in CollarIdx(siteId) : \A j \in CollarIdx(siteId) : j <= i]
EndDepthOf(siteId) == safeFloat(Get(LastCollarOf(siteId), "END_DEPTH"))

EohInput == intervalData[tbl]
EohRowIdx == 1..Len(EohInput)
SiteOfRow(i) == Get(EohInput[i], "SITE_ID")
ToOfRow(i) == safeFloat(Get(EohInput[i], "DEPTH_TO"))
RowsOfSite(siteId) == {i \in EohRowIdx : SiteOfRow(i) = siteId}

ErrIdx == 1..Len(allErrors)
\* per-row 'depth exceeded' errors reported for row i
ExceededErrs(i) == {e \in ErrIdx : /\ allErrors[e].id[1] = "eoh"
                                    /\ allErrors[e].rowId = RowId(i)}
\* CRITICAL LOGIC errors on DEPTH_TO reported for row i
CriticalDepthToErrs(i) == {e \in ErrIdx : /\ allErrors[e].rowId = RowId(i)
                                           /\ allErrors[e].severity = CRITICAL
                                           /\ allErrors[e].type = "LOGIC"
                                           /\ allErrors[e].column = "DEPTH_TO"}
\* bottom-coverage findings reported for a site
BottomErrs(siteId) == {e \in ErrIdx : /\ allErrors[e].id[1] = "eohbot"
                                       /\ allErrors[e].siteId = siteId}

\* C4: with END_DEPTH = 100 and a row with DEPTH_TO = 105 on a site none of
\* whose other intervals reaches 99.99, validateEOH reports one CRITICAL
\* 'depth exceeded' error for the row and also a bottom-coverage finding for
\* the site, of severity WARNING.
C4_OverEohAlsoBottomWarning ==
    pc = "eohDone" =>
        \A i \in EohRowIdx :
            ( /\ KnownSite(SiteOfRow(i))
              /\ EndDepthOf(SiteOfRow(i)) = 10000
              /\ ToOfRow(i) = 10500
              /\ \A j \in RowsOfSite(SiteOfRow(i)) \ {i} : ToOfRow(j) < 9999 )
            => /\ Cardinality(CriticalDepthToErrs(i)) = 1
               /\ \E e \in BottomErrs(SiteOfRow(i)) : allErrors[e].severity = WARNING

\* C5: a row of a site whose Collar END_DEPTH is positive gets exactly one
\* CRITICAL LOGIC error on DEPTH_TO when its DEPTH_TO is strictly greater
\* than END_DEPTH + 0.01, and none otherwise.
C5_PerRowEoh ==
    pc = "eohDone" =>
        \A i \in EohRowIdx :
            (KnownSite(SiteOfRow(i)) /\ EndDepthOf(SiteOfRow(i)) > 0)
            => /\ Cardinality(CriticalDepthToErrs(i)) =
                    (IF ToOfRow(i) > EndDepthOf(SiteOfRow(i)) + 1 THEN 1 ELSE 0)
               /\ ExceededErrs(i) = CriticalDepthToErrs(i)

\* a row exactly at END_DEPTH + 0.01 passes next to a row above it that fails
C5_Witness ==
    /\ pc = "eohDone"
    /\ \E i, j \in EohRowIdx :
        /\ SiteOfRow(i) = SiteOfRow(j)
        /\ KnownSite(SiteOfRow(i)) /\ EndDepthOf(SiteOfRow(i)) = 10000
        /\ ToOfRow(i) = 10001 /\ ExceededErrs(i) = {}
        /\ ToOfRow(j) = 10002 /\ Cardinality(ExceededErrs(j)) = 1

C7_OnlyPositiveKnownDepthChecked ==
    pc = "eohDone" =>
        \A i \in EohRowIdx :
            (~KnownSite(SiteOfRow(i)) \/ EndDepthOf(SiteOfRow(i)) <= 0)
            => ExceededErrs(i) = {} /\ BottomErrs(SiteOfRow(i)) = {}

-----------------------------------------------------------------------------
(* validateIntegrity called on its own                                     *)

MaxIntCollars == 2
MaxIntRows == 3

IntCollarRows ==
    {[SITE_ID |-> Str("A"), END_DEPTH |-> Num(10000)],
     [SITE_ID |-> Str("B"), END_DEPTH |-> Num(10000)],
     [END_DEPTH |-> Num(10000)]}

IntChildRows ==
    {[SITE_ID |-> Str("A")], [SITE_ID |-> Str("B")], [SITE_ID |-> Str("X")],
     [SITE_ID |-> Str(""), HOLE_ID |-> Str("A")], [HOLE_ID |-> Str("A")]}

InitIntegrity ==
    /\ tbl \in {SURVEY, "ASSAY"}
    /\ collarData \in {WithIds(c) : c \in SeqsUpTo(IntCollarRows, MaxIntCollars)}
    /\ \E r \in SeqsUpTo(IntChildRows, MaxIntRows) :
        /\ surveyData = IF tbl = SURVEY THEN WithIds(r) ELSE <<>>
        /\ intervalData = IF tbl = SURVEY THEN NoIntervals ELSE OnlyTable(tbl, WithIds(r))
    /\ configs = <<>>
    /\ libraries = <<>>
    /\ snapshot = <<>>
    /\ allErrors = <<>>
    /\ summary = NoSummary
    /\ firstSummary = NoSummary
    /\ runNo = 1
    /\ pc = "callIntegrity"

CallValidateIntegrity ==
    /\ pc = "callIntegrity"
    /\ allErrors' = validateIntegrity(collarData, rowsOf(tbl), tbl)
    /\ pc' = "integrityDone"
    /\ UNCHANGED <<collarData, surveyData, intervalData, configs, libraries,
                   snapshot, summary, firstSummary, runNo, tbl>>

NextIntegrity == CallValidateIntegrity

SpecIntegrity == InitIntegrity /\ [][NextIntegrity]_vars

\* a child row none of the Collar rows shares its SITE_ID with
OrphanRow(row) == \A c \in 1..Len(collarData) :
                      Get(collarData[c], "SITE_ID") # Get(row, "SITE_ID")
OrphanIdx(rows) == {i \in 1..Len(rows) : OrphanRow(rows[i])}
ErrsOfRow(i) == {e \in ErrIdx : allErrors[e].rowId = RowId(i)}

\* C9: validateIntegrity returns exactly one CRITICAL INTEGRITY error on
\* column SITE_ID for every child row whose SITE_ID is not a Collar SITE_ID
\* and none for any other row, for Survey and interval tables alike.
C9_OneErrorPerOrphan ==
    pc = "integrityDone" =>
        /\ Len(allErrors) = Cardinality(OrphanIdx(rowsOf(tbl)))
        /\ \A i \in 1..Len(rowsOf(tbl)) :
              Cardinality(ErrsOfRow(i)) = (IF i \in OrphanIdx(rowsOf(tbl)) THEN 1 ELSE 0)
        /\ \A e \in ErrIdx : /\ allErrors[e].severity = CRITICAL
                             /\ allErrors[e].type = "INTEGRITY"
                             /\ allErrors[e].column = "SITE_ID"
                             /\ allErrors[e].table = tbl

\* a Survey table with an orphan whose HOLE_ID names a real hole, an orphan
\* of an unknown site and a row of a known site
C9_Witness ==
    /\ pc = "integrityDone" /\ tbl = SURVEY
    /\ Len(allErrors) = 2 /\ Len(surveyData) = 3
    /\ \E i \in OrphanIdx(surveyData) :
          /\ Get(surveyData[i], "HOLE_ID") = Str("A")
          /\ \E c \in 1..Len(collarData) : Get(collarData[c], "SITE_ID") = Str("A")
    /\ \E i \in OrphanIdx(surveyData) : Get(surveyData[i], "SITE_ID") = Str("X")

-----------------------------------------------------------------------------
(* validateStructure called on its own                                     *)

MaxStructRows == 2
MaxStructCols == 2

StructFields == {"SITE_ID", "DEPTH_FROM", "DEPTH_TO"}

StructRows == {[f \in K |-> Num(0)] : K \in SUBSET StructFields}

StructCols == {Col(name, req, FALSE, "float", NoRange, NoLookup) :
                  name \in StructFields, req \in BOOLEAN}

InitStructure ==
    /\ tbl = "ASSAY"
    /\ collarData = <<>>
    /\ surveyData = <<>>
    /\ intervalData \in {OnlyTable(tbl, WithIds(r)) : r \in SeqsUpTo(StructRows, MaxStructRows)}
    /\ configs \in {<<TableConfig(tbl, c)>> : c \in SeqsUpTo(StructCols, MaxStructCols)}
    /\ libraries = <<>>
    /\ snapshot = <<>>
    /\ allErrors = <<>>
    /\ summary = NoSummary
    /\ firstSummary = NoSummary
    /\ runNo = 1
    /\ pc = "callStructure"

CallValidateStructure ==
    /\ pc = "callStructure"
    /\ allErrors' = validateStructure(intervalData[tbl], configs[1])
    /\ pc' = "structDone"
    /\ UNCHANGED <<collarData, surveyData, intervalData, configs, libraries,
                   snapshot, summary, firstSummary, runNo, tbl>>

NextStructure == CallValidateStructure

SpecStructure == InitStructure /\ [][NextStructure]_vars

StructInput == intervalData[tbl]
StructRules == configs[1].columns
\* the rules that ask for a header the first row does not have
MissingRules == {c \in 1..Len(StructRules) :
                    /\ StructRules[c].isSchemaRequired
                    /\ StructRules[c].columnName \notin DOMAIN StructInput[1]}

\* C10: no error for an empty table; otherwise exactly one CRITICAL
\* STRUCTURE error (rowId HEADER, siteId SYSTEM, column the missing name)
\* per rule with isSchemaRequired whose name is not a field of the first
\* row, and nothing else, whatever the later rows hold.
C10_StructureFromFirstRow ==
    pc = "structDone" =>
        IF Len(StructInput) = 0 THEN allErrors = <<>>
        ELSE /\ Len(allErrors) = Cardinality(MissingRules)
             /\ \A c \in MissingRules :
                   Cardinality({e \in ErrIdx : allErrors[e].column = StructRules[c].columnName})
                   = Cardinality({d \in MissingRules :
                         StructRules[d].columnName = StructRules[c].columnName})
             /\ \A e \in ErrIdx :
                   /\ allErrors[e].severity = CRITICAL
                   /\ allErrors[e].type = "STRUCTURE"
                   /\ allErrors[e].rowId = "HEADER"
                   /\ allErrors[e].siteId = Str("SYSTEM")
                   /\ \E c \in MissingRules : StructRules[c].columnName = allErrors[e].column

\* the required column is missing from the first row only: still reported
C10_Witness ==
    /\ pc = "structDone"
    /\ Len(StructInput) = 2
    /\ "DEPTH_TO" \notin DOMAIN StructInput[1]
    /\ "DEPTH_TO" \in DOMAIN StructInput[2]
    /\ \E e \in ErrIdx : allErrors[e].column = "DEPTH_TO"
    /\ Len(allErrors) = 1 /\ Len(StructRules) = 2

-----------------------------------------------------------------------------
(* runValidation, run twice over the same arrays                           *)

MaxRunRows == 2

RunCollars ==
    {<<>>,
     <<[SITE_ID |-> Str("A"), END_DEPTH |-> Num(10000)]>>,
     <<[SITE_ID |-> Str("A"), END_DEPTH |-> Num(10000)],
       [SITE_ID |-> Str("B"), END_DEPTH |-> Str("abc")]>>}

RunSurveys ==
    {<<>>,
     <<[SITE_ID |-> Str("A"), DEPTH |-> Num(5000)]>>,
     <<[SITE_ID |-> Str("X"), DEPTH |-> Num(5000)],
       [SITE_ID |-> Str("A"), DEPTH |-> Num(20000)],
       [SITE_ID |-> Str("X"), DEPTH |-> Num(6000)]>>,
     <<[SITE_ID |-> Str("Y"), DEPTH |-> Num(0)],
       [SITE_ID |-> Str("X")]>>}

RunIntervalRows ==
    {[SITE_ID |-> Str("A"), DEPTH_FROM |-> Num(0), DEPTH_TO |-> Num(1000)],
     [SITE_ID |-> Str("A"), DEPTH_FROM |-> Num(1000), DEPTH_TO |-> Num(10500)],
     [SITE_ID |-> Str("X"), DEPTH_FROM |-> Num(500), DEPTH_TO |-> Num(2000)],
     [SITE_ID |-> Str(""), HOLE_ID |-> Str("X"), DEPTH_FROM |-> Num(0), DEPTH_TO |-> Num(400)],
     [SITE_ID |-> Str("X"), DEPTH_TO |-> Num(0)]}

\* the tables the interval rows are loaded into
RunTables == {"LITHOLOGY", "DENSITY"}

\* the rule set of a table: the key and depth columns the engine reads
RunColumns(t) ==
    CASE t = COLLAR ->
           <<Col("SITE_ID", TRUE, TRUE, "string", NoRange, NoLookup),
             Col("END_DEPTH", TRUE, TRUE, "float", NoRange, NoLookup)>>
      [] t = SURVEY ->
           <<Col("SITE_ID", TRUE, TRUE, "string", NoRange, NoLookup),
             Col("DEPTH", TRUE, TRUE, "float", NoRange, NoLookup)>>
      [] OTHER ->
           <<Col("SITE_ID", TRUE, TRUE, "string", NoRange, NoLookup),
             Col("DEPTH_FROM", TRUE, TRUE, "float", NoRange, NoLookup),
             Col("DEPTH_TO", TRUE, TRUE, "float", NoRange, NoLookup)>>

\* the rule sets of the tables of a set, in the order of the table types
RECURSIVE RunConfigs(_, _)
RunConfigs(order, S) ==
    IF order = <<>> THEN <<>>
    ELSE (IF Head(order) \in S
          THEN <<TableConfig(Head(order), RunColumns(Head(order)))>> ELSE <<>>)
         \o RunConfigs(Tail(order), S)

TableOrder == <<COLLAR, SURVEY>> \o IntervalTables

Init ==
    /\ tbl \in RunTables
    /\ collarData \in {WithIds(c) : c \in RunCollars}
    /\ surveyData \in {WithIds(r) : r \in RunSurveys}
    /\ intervalData \in {OnlyTable(tbl, WithIds(r)) : r \in SeqsUpTo(RunIntervalRows, MaxRunRows)}
    /\ configs \in {RunConfigs(TableOrder, S) : S \in SUBSET {COLLAR, SURVEY, tbl}}
    /\ libraries = <<>>
    /\ snapshot = [collarData |-> collarData, surveyData |-> surveyData,
                   intervalData |-> intervalData, configs |-> configs,
                   libraries |-> libraries]
    /\ allErrors = <<>>
    /\ summary = NoSummary
    /\ firstSummary = NoSummary
    /\ runNo = 1
    /\ pc = "collar"

\* mutant: the accumulator outlives the call
initialErrors_Leftover == allErrors

\* let allErrors: ValidationError[] = []
initialErrors == <<>>

\* mutant: the Value checks of an interval table run first
intervalErrors_ValueFirst(type) ==
    LET c == findConfig(configs, type) IN
    IF c # 0
    THEN validateValues(intervalData[type], configs[c], libraries)
         \o validateStructure(intervalData[type], configs[c])
         \o validateIntegrity(collarData, intervalData[type], type)
         \o validateEOH(collarData, intervalData[type], type)
         \o validateIntervals(intervalData[type], type)
    ELSE <<>>

\* what validateGenericInterval(data, type) appends to allErrors
intervalErrors(type) ==
    LET c == findConfig(configs, type) IN
    IF c # 0
    THEN validateStructure(intervalData[type], configs[c])
         \o validateIntegrity(collarData, intervalData[type], type)
         \o validateEOH(collarData, intervalData[type], type)
         \o validateIntervals(intervalData[type], type)
         \o validateValues(intervalData[type], configs[c], libraries)
    ELSE <<>>

\* what the pass over one table type appends to allErrors
passErrors(type) ==
    LET c == findConfig(configs, type) IN
    CASE type = COLLAR ->
           (IF c # 0
            THEN validateStructure(collarData, configs[c])
                 \o validateValues(collarData, configs[c], libraries)
                 \o validateCollarDepths(collarData)
            ELSE <<>>)
      [] type = SURVEY ->
           (IF c # 0
            THEN validateStructure(surveyData, configs[c])
                 \o validateValues(surveyData, configs[c], libraries)
            ELSE <<>>)
           \o validateIntegrity(collarData, surveyData, SURVEY)
           \o surveyDepthErrors(collarData, surveyData)
      [] OTHER -> intervalErrors(type)

\* 1. Collar checks
CollarChecks ==
    /\ pc = "collar"
    /\ allErrors' = initialErrors \o passErrors(COLLAR)
    /\ pc' = "survey"
    /\ UNCHANGED <<collarData, surveyData, intervalData, configs, libraries,
                   snapshot, summary, firstSummary, runNo, tbl>>

\* 2. Survey checks
SurveyChecks ==
    /\ pc = "survey"
    /\ allErrors' = allErrors \o passErrors(SURVEY)
    /\ pc' = IntervalTables[1]
    /\ UNCHANGED <<collarData, surveyData, intervalData, configs, libraries,
                   snapshot, summary, firstSummary, runNo, tbl>>

\* the position after the interval table at index i
afterTable(i) == IF i < Len(IntervalTables) THEN IntervalTables[i + 1] ELSE "summary"

\* 3. validateGenericInterval(data, type), one call per interval table
validateGenericInterval ==
    \E i \in 1..Len(IntervalTables) :
        LET type == IntervalTables[i]
            data == intervalData[type]
            c    == findConfig(configs, type)
        IN /\ pc = type
           /\ allErrors' = allErrors \o passErrors(type)
           /\ intervalData' = IF c # 0
                              THEN [intervalData EXCEPT ![type] = rowsAfterIntervals(data)]
                              ELSE intervalData
           /\ pc' = afterTable(i)
           /\ UNCHANGED <<collarData, surveyData, configs, libraries,
                          snapshot, summary, firstSummary, runNo, tbl>>

\* Summary calculation
Summarize ==
    /\ pc = "summary"
    /\ summary' = makeSummary(groupErrors(allErrors))
    /\ pc' = "done"
    /\ UNCHANGED <<collarData, surveyData, intervalData, configs, libraries,
                   snapshot, allErrors, firstSummary, runNo, tbl>>

\* the caller runs the engine again on the arrays it still holds
Rerun ==
    /\ pc = "done"
    /\ runNo = 1
    /\ firstSummary' = summary
    /\ summary' = NoSummary
    /\ runNo' = 2
    /\ pc' = "collar"
    /\ UNCHANGED <<collarData, surveyData, intervalData, configs, libraries,
                   snapshot, allErrors, tbl>>

Next ==
    \/ CollarChecks
    \/ SurveyChecks
    \/ validateGenericInterval
    \/ Summarize
    \/ Rerun

Spec == Init /\ [][Next]_vars

-----------------------------------------------------------------------------
(* Properties of runValidation                                             *)

Configured(t) == \E c \in 1..Len(configs) : configs[c].tableType = t
FinalErrors == summary.errors
FinalIdx == 1..Len(FinalErrors)

C3_UnconfiguredTablesSilent ==
    pc = "done" =>
        \A t \in Range(TableOrder) :
            ~Configured(t) => \A e \in FinalIdx : FinalErrors[e].table # t

\* the validated child tables: Survey and the configured interval tables
ValidatedChildren == {SURVEY} \cup {t \in IntervalTableSet : Configured(t)}

\* the orphan rows of a table that resolve to the site of its row i
OrphansOfSite(t, i) ==
    {j \in OrphanIdx(rowsOf(t)) : safeSiteId(rowsOf(t)[j]) = safeSiteId(rowsOf(t)[i])}

\* the ids of the rows of a set of row numbers, comma-separated in row order
RECURSIVE CommaList(_, _)
CommaList(S, from) ==
    IF \A j \in S : j < from THEN ""
    ELSE IF from \in S
         THEN RowId(from) \o (IF \E j \in S : j > from THEN "," ELSE "")
              \o CommaList(S, from + 1)
         ELSE CommaList(S, from + 1)

IntegrityEntries(t, siteId) ==
    {e \in FinalIdx : /\ FinalErrors[e].type = "INTEGRITY"
                      /\ FinalErrors[e].table = t
                      /\ FinalErrors[e].siteId = siteId
                      /\ FinalErrors[e].column = "SITE_ID"}

\* C8: after aggregation, for each validated child table and each site
\* identifier carried by an orphan row of it, the Summary has exactly one
\* INTEGRITY entry for (table, site, SITE_ID), whose rowId lists all the
\* orphan rows of that site in that table.
C8_OneIntegrityEntryPerSite ==
    pc = "done" =>
        \A t \in ValidatedChildren :
            \A i \in OrphanIdx(rowsOf(t)) :
                LET entries == IntegrityEntries(t, safeSiteId(rowsOf(t)[i])) IN
                /\ Cardinality(entries) = 1
                /\ \A e \in entries :
                      FinalErrors[e].rowId = CommaList(OrphansOfSite(t, i), 1)

\* Survey has orphans of two sites, one of them twice around a valid row,
\* and the interval table has two orphans that resolve to one site
C8_Witness ==
    /\ pc = "done"
    /\ Configured(tbl)
    /\ \E e \in IntegrityEntries(SURVEY, Str("X")) : FinalErrors[e].rowId = "r1,r3"
    /\ \E e \in IntegrityEntries(tbl, Str("X")) : FinalErrors[e].rowId = "r1,r2"
    /\ Cardinality(OrphanIdx(surveyData)) = 2 /\ Len(surveyData) = 3

-----------------------------------------------------------------------------
(* validateIntervals called on its own                                     *)

MaxIvRows == 3

\* depths in hundredths: 10 m = 1000
IvRow(site, from, to) ==
    [f \in {"SITE_ID", "DEPTH_FROM", "DEPTH_TO"} |->
        CASE f = "SITE_ID"    -> Str(site)
          [] f = "DEPTH_FROM" -> from
          [] OTHER            -> to]

IvRowKinds ==
    { IvRow("A", Num(1000), Num(2000)), IvRow("A", Num(2000), Num(3000)),
      IvRow("A", Num(1500), Num(2500)), IvRow("A", Num(1500), Num(1500)),
      IvRow("A", Num(2000), Num(1000)), IvRow("A", Str("50"), Num(5000)),
      IvRow("B", Num(1000), Num(2000)) }

InitIntervals ==
    /\ tbl = "LITHOLOGY"
    /\ collarData = <<>>
    /\ surveyData = <<>>
    /\ intervalData \in {OnlyTable(tbl, WithIds(r)) : r \in SeqsUpTo(IvRowKinds, MaxIvRows)}
    /\ configs = <<>> /\ libraries = <<>> /\ snapshot = <<>> /\ allErrors = <<>>
    /\ summary = NoSummary /\ firstSummary = NoSummary /\ runNo = 1
    /\ pc = "callIntervals"

CallValidateIntervals ==
    /\ pc = "callIntervals"
    /\ allErrors' = validateIntervals(intervalData[tbl], tbl)
    /\ pc' = "intervalsDone"
    /\ UNCHANGED <<collarData, surveyData, intervalData, configs, libraries,
                   snapshot, summary, firstSummary, runNo, tbl>>

NextIntervals == CallValidateIntervals

SpecIntervals == InitIntervals /\ [][NextIntervals]_vars

-----------------------------------------------------------------------------
(* Properties of validateIntervals                                         *)

IvIdx == 1..Len(intervalData[tbl])
IvSite(i) == ToStr(safeSiteId(intervalData[tbl][i]))
IvFrom(i) == safeFloat(Get(intervalData[tbl][i], "DEPTH_FROM"))
IvTo(i) == safeFloat(Get(intervalData[tbl][i], "DEPTH_TO"))

\* row j stands before row i in the stably sorted group of their site
IvBefore(j, i) ==
    /\ IvSite(j) = IvSite(i)
    /\ \/ IvFrom(j) < IvFrom(i)
       \/ IvFrom(j) = IvFrom(i) /\ j < i

IvHasPrev(i) == \E j \in IvIdx : IvBefore(j, i)

\* the row immediately before row i in its sorted group
IvPrev(i) ==
    CHOOSE j \in IvIdx :
        /\ IvBefore(j, i)
        /\ \A k \in IvIdx : IvBefore(k, i) => (k = j \/ IvBefore(k, j))

\* the errors of one check category reported for row i
IvErrs(category, i) ==
    {e \in ErrIdx : /\ allErrors[e].id[1] = category
                    /\ allErrors[e].rowId = RowId(i)}

IvCount(category, i, cond) ==
    Cardinality(IvErrs(category, i)) = (IF cond THEN 1 ELSE 0)

IvAll(category, i, severity) ==
    \A e \in IvErrs(category, i) :
        /\ allErrors[e].severity = severity
        /\ allErrors[e].type = "INTERVAL"
        /\ allErrors[e].table = tbl
        /\ allErrors[e].siteId = Str(IvSite(i))

\* C11: within each site group, stably sorted ascending by DEPTH_FROM, every
\* row but the first is compared with the row immediately before it only:
\* DEPTH_FROM below that row's DEPTH_TO gives one CRITICAL INTERVAL overlap
\* error on the current row, above it one WARNING INTERVAL gap error, equal to
\* it neither; the first row of a group gets neither.
C11_AdjacentOverlapGap ==
    pc = "intervalsDone" =>
        \A i \in IvIdx :
            /\ IvCount("ovl", i, IvHasPrev(i) /\ IvFrom(i) < IvTo(IvPrev(i)))
            /\ IvCount("gap", i, IvHasPrev(i) /\ IvFrom(i) > IvTo(IvPrev(i)))
            /\ IvAll("ovl", i, CRITICAL)
            /\ IvAll("gap", i, WARNING)

\* rows [{10,20},{20,30},{15,25}] of one site: sorted as r1, r3, r2, with an
\* overlap on r3 (15 < 20) and an overlap on r2 (20 < 25) and nothing else
C11_Witness ==
    /\ pc = "intervalsDone"
    /\ Len(intervalData[tbl]) = 3
    /\ \A i \in IvIdx : IvSite(i) = "A"
    /\ <<IvFrom(1), IvTo(1)>> = <<1000, 2000>>
    /\ <<IvFrom(2), IvTo(2)>> = <<2000, 3000>>
    /\ <<IvFrom(3), IvTo(3)>> = <<1500, 2500>>
    /\ Len(allErrors) = 2
    /\ allErrors[1].rowId = "r3" /\ allErrors[2].rowId = "r2"
    /\ allErrors[1].message = <<"Overlap", Num(1500), Num(2000)>>
    /\ allErrors[2].message = <<"Overlap", Num(2000), Num(2500)>>
    /\ \A e \in ErrIdx : allErrors[e].severity = CRITICAL /\ allErrors[e].id[1] = "ovl"

\* C12: whatever its position in the site group, a row gets one WARNING
\* INTERVAL zero-length error exactly when its coerced DEPTH_FROM equals its
\* coerced DEPTH_TO, and one CRITICAL INTERVAL inverted error exactly when its
\* coerced DEPTH_FROM is greater than its coerced DEPTH_TO.
C12_ZeroLengthAndInverted ==
    pc = "intervalsDone" =>
        \A i \in IvIdx :
            /\ IvCount("zero", i, IvFrom(i) = IvTo(i))
            /\ IvCount("inv", i, IvFrom(i) > IvTo(i))
            /\ IvAll("zero", i, WARNING)
            /\ IvAll("inv", i, CRITICAL)

\* a zero-length row whose cells differ before coercion ("50" and 50), not
\* the first of its group, next to an inverted row
C12_Witness ==
    /\ pc = "intervalsDone"
    /\ \E i, j \in IvIdx :
        /\ Get(intervalData[tbl][i], "DEPTH_FROM") # Get(intervalData[tbl][i], "DEPTH_TO")
        /\ IvFrom(i) = IvTo(i) /\ IvHasPrev(i)
        /\ IvErrs("zero", i) # {} /\ IvErrs("inv", i) = {}
        /\ IvFrom(j) > IvTo(j)
        /\ IvErrs("inv", j) # {} /\ IvErrs("zero", j) = {}

\* the categories reported for the row with id rowId in a list of errors
CategoriesOf(errors, rowId) ==
    {errors[e].id[1] : e \in {x \in 1..Len(errors) : errors[x].rowId = rowId}}

\* C13 as stated: some table makes validateIntervals report a zero-length
\* error, an inverted error and an overlap or gap error on one and the same
\* row.
C13_AllThreeOnOneRow ==
    \E rows \in {WithIds(r) : r \in SeqsUpTo(IvRowKinds, MaxIvRows)} :
        \E i \in 1..Len(rows) :
            LET cats == CategoriesOf(validateIntervals(rows, tbl), RowId(i))
            IN /\ "zero" \in cats
               /\ "inv" \in cats
               /\ ("ovl" \in cats \/ "gap" \in cats)

\* C13 amended: no row gets both a zero-length and an inverted error, so no
\* row gets all three; either of them can come together with an overlap or
\* gap error on the same row.
C13_ZeroAndInvertedExclusive ==
    pc = "intervalsDone" =>
        \A i \in IvIdx :
            LET cats == CategoriesOf(allErrors, RowId(i))
            IN /\ ~("zero" \in cats /\ "inv" \in cats)
               /\ "zero" \in cats => IvFrom(i) = IvTo(i)
               /\ "inv" \in cats => IvFrom(i) > IvTo(i)

\* one row with a zero-length and an overlap error, another with an inverted
\* and a gap error
C13_Witness ==
    /\ pc = "intervalsDone"
    /\ \E i, j \in IvIdx :
        /\ {"zero", "ovl"} \subseteq CategoriesOf(allErrors, RowId(i))
        /\ {"inv", "gap"} \subseteq CategoriesOf(allErrors, RowId(j))

\* row b starts before an earlier row a of its sorted group ends
IvOverlapPair(a, b) == IvBefore(a, b) /\ IvFrom(b) < IvTo(a)

IvSiteHasOverlapError(i) ==
    \E j \in IvIdx : IvSite(j) = IvSite(i) /\ IvErrs("ovl", j) # {}

IvSiteHasOverlapPair(i) ==
    \E a, b \in IvIdx : IvSite(a) = IvSite(i) /\ IvOverlapPair(a, b)

IvInverted(rows, i) ==
    safeFloat(Get(rows[i], "DEPTH_FROM")) > safeFloat(Get(rows[i], "DEPTH_TO"))

\* C26 as stated: a site without inverted rows has an overlap error iff two
\* of its rows, adjacent or not, overlap; and some table with an inverted
\* row has a site for which this equivalence fails.
C26_CompleteUnlessInverted ==
    /\ pc = "intervalsDone" =>
          \A i \in IvIdx :
              (\A j \in IvIdx : IvSite(j) = IvSite(i) => IvFrom(j) <= IvTo(j))
              => (IvSiteHasOverlapError(i) <=> IvSiteHasOverlapPair(i))
    /\ \E rows \in {WithIds(r) : r \in SeqsUpTo(IvRowKinds, MaxIvRows)} :
          LET errs == validateIntervals(rows, tbl)
              idx  == 1..Len(rows)
              site(i) == ToStr(safeSiteId(rows[i]))
              from(i) == safeFloat(Get(rows[i], "DEPTH_FROM"))
              to(i)   == safeFloat(Get(rows[i], "DEPTH_TO"))
              before(a, b) == /\ site(a) = site(b)
                              /\ (from(a) < from(b) \/ (from(a) = from(b) /\ a < b))
          IN \E i \in idx :
                /\ \E j \in idx : site(j) = site(i) /\ IvInverted(rows, j)
                /\ (\E j \in idx : /\ site(j) = site(i)
                                   /\ "ovl" \in CategoriesOf(errs, RowId(j)))
                   # (\E a, b \in idx : /\ site(a) = site(i) /\ before(a, b)
                                        /\ from(b) < to(a))

\* C26 amended: a site has an overlap error iff two of its rows, a sorted
\* before b, adjacent or not, are such that b starts before a ends; this
\* holds whether or not rows of the site are inverted.
C26_OverlapComplete ==
    pc = "intervalsDone" =>
        \A i \in IvIdx : IvSiteHasOverlapError(i) <=> IvSiteHasOverlapPair(i)

\* a site with an inverted row: the overlapping rows r1 and r3 are not
\* adjacent, r3 itself gets no overlap error, the row between them does
C26_Witness ==
    /\ pc = "intervalsDone"
    /\ Len(intervalData[tbl]) = 3
    /\ \A i \in IvIdx : IvSite(i) = "A"
    /\ IvOverlapPair(1, 3) /\ IvPrev(3) = 2 /\ IvPrev(2) = 1
    /\ IvFrom(3) > IvTo(3)
    /\ IvErrs("ovl", 3) = {} /\ IvErrs("ovl", 2) # {}

-----------------------------------------------------------------------------
(* validateValues called on its own                                        *)

MaxValRows == 2

\* numbers in hundredths: 360 = 36000
ValRanges ==
    { NoRange,
      [has |-> TRUE, hasMin |-> TRUE, min |-> 0, hasMax |-> TRUE, max |-> 36000,
       strict |-> TRUE],
      [has |-> TRUE, hasMin |-> TRUE, min |-> 0, hasMax |-> TRUE, max |-> 36000,
       strict |-> FALSE],
      [has |-> TRUE, hasMin |-> TRUE, min |-> 100, hasMax |-> FALSE, max |-> 0,
       strict |-> FALSE] }

ValLookups ==
    { NoLookup,
      [has |-> TRUE, libraryId |-> "lith", caseSensitive |-> FALSE],
      [has |-> TRUE, libraryId |-> "lith", caseSensitive |-> TRUE],
      [has |-> TRUE, libraryId |-> "alt", caseSensitive |-> FALSE],
      [has |-> TRUE, libraryId |-> "gone", caseSensitive |-> FALSE] }

\* the rule of the column V: a numeric column with any range rule, or a
\* string column with any lookup rule; either may carry the rule of the
\* other kind too
ValCols ==
    {Col("V", FALSE, m, "float", r, l) :
        m \in BOOLEAN, r \in ValRanges,
        l \in {NoLookup, [has |-> TRUE, libraryId |-> "lith", caseSensitive |-> FALSE]}}
    \cup
    {Col("V", FALSE, m, "string", r, l) :
        m \in BOOLEAN, l \in ValLookups,
        r \in {NoRange, [has |-> TRUE, hasMin |-> TRUE, min |-> 0, hasMax |-> TRUE,
                         max |-> 36000, strict |-> TRUE]}}

\* the rule of the column W next to it: an optional azimuth
ValColW ==
    Col("W", FALSE, FALSE, "float",
        [has |-> TRUE, hasMin |-> TRUE, min |-> 0, hasMax |-> TRUE, max |-> 36000,
         strict |-> TRUE], NoLookup)

ValLibraries ==
    << [id |-> "lith", name |-> "Lithology", items |-> <<[code |-> "QZ"]>>],
       [id |-> "alt", name |-> "Alteration", items |-> <<[code |-> "xx"]>>] >>

ValValues ==
    { Null, Str(""), Num(40000), Num(-500), Num(18000),
      Str("qz"), Str("QZ"), Str("XX") }

ValRows ==
    {[f \in {"SITE_ID"} |-> Str("A")]}
    \cup {[f \in {"SITE_ID", "W"} |-> IF f = "W" THEN Num(40000) ELSE Str("A")]}
    \cup {[f \in {"SITE_ID", "V"} |-> IF f = "V" THEN v ELSE Str("A")] : v \in ValValues}
    \cup {[f \in {"SITE_ID", "V", "W"} |->
              CASE f = "V" -> v [] f = "W" -> Num(40000) [] OTHER -> Str("A")] :
                 v \in ValValues}

InitValues ==
    /\ tbl = "LITHOLOGY"
    /\ collarData = <<>>
    /\ surveyData = <<>>
    /\ intervalData \in {OnlyTable(tbl, WithIds(r)) : r \in SeqsUpTo(ValRows, MaxValRows)}
    /\ configs \in {<<TableConfig(tbl, <<c, ValColW>>)>> : c \in ValCols}
    /\ libraries = ValLibraries
    /\ snapshot = <<>> /\ allErrors = <<>>
    /\ summary = NoSummary /\ firstSummary = NoSummary /\ runNo = 1
    /\ pc = "callValues"

CallValidateValues ==
    /\ pc = "callValues"
    /\ allErrors' = validateValues(intervalData[tbl], configs[1], libraries)
    /\ pc' = "valuesDone"
    /\ UNCHANGED <<collarData, surveyData, intervalData, configs, libraries,
                   snapshot, summary, firstSummary, runNo, tbl>>

NextValues == CallValidateValues

SpecValues == InitValues /\ [][NextValues]_vars

-----------------------------------------------------------------------------
(* Properties of validateValues                                            *)

ValIdx == 1..Len(intervalData[tbl])
ValColumns == configs[1].columns
ValColIdx == 1..Len(ValColumns)
CellValue(i, c) == Get(intervalData[tbl][i], ValColumns[c].columnName)

\* absent, null or the empty string
EmptyValue(value) == value \in {Undef, Null, Str("")}

\* the errors reported for the cell of row i in column c
CellErrs(i, c) ==
    {e \in ErrIdx : /\ allErrors[e].rowId = RowId(i)
                    /\ allErrors[e].column = ValColumns[c].columnName}

CellErrsOf(category, i, c) == {e \in CellErrs(i, c) : allErrors[e].id[1] = category}

\* C14: a mandatory column whose cell is absent, null or the empty string
\* gets exactly one error for that cell, the CRITICAL VALUE 'missing value'
\* error, and so no range or lookup error, whatever rules the column carries.
C14_MandatoryMissing ==
    pc = "valuesDone" =>
        \A i \in ValIdx, c \in ValColIdx :
            (ValColumns[c].isMandatory /\ EmptyValue(CellValue(i, c))) =>
                /\ Cardinality(CellErrs(i, c)) = 1
                /\ \A e \in CellErrs(i, c) :
                    /\ allErrors[e].id[1] = "req"
                    /\ allErrors[e].message[1] = "Missing Value"
                    /\ allErrors[e].severity = CRITICAL
                    /\ allErrors[e].type = "VALUE"

\* a null cell in a mandatory numeric column with minimum 1, and an absent
\* cell in a mandatory column, one error each
C14_Witness ==
    /\ pc = "valuesDone"
    /\ ValColumns[1].isMandatory
    /\ ValColumns[1].range.hasMin /\ ValColumns[1].range.min > 0
    /\ ValColumns[1].type # "string"
    /\ \E i, j \in ValIdx :
        /\ CellValue(i, 1) = Null /\ Cardinality(CellErrsOf("req", i, 1)) = 1
        /\ CellValue(j, 1) = Undef /\ Cardinality(CellErrsOf("req", j, 1)) = 1

\* C15: a column that is not mandatory gets no VALUE error for a cell that
\* is absent, null or the empty string, whatever rules the column carries.
C15_OptionalEmptyPasses ==
    pc = "valuesDone" =>
        \A i \in ValIdx, c \in ValColIdx :
            (~ValColumns[c].isMandatory /\ EmptyValue(CellValue(i, c))) =>
                CellErrs(i, c) = {}

\* C16: for a non-empty cell of a column that is not of type 'string' and
\* has a range rule there is one VALUE 'too low' error iff min is defined and
\* the coerced value is below it, and one VALUE 'too high' error iff max is
\* defined and the coerced value is above it; these errors are CRITICAL when
\* the rule is strict and WARNING when it is not. A column of type 'string'
\* never gets a range error.
C16_RangeRule ==
    pc = "valuesDone" =>
        \A i \in ValIdx, c \in ValColIdx :
            LET col   == ValColumns[c]
                value == CellValue(i, c)
                n     == safeFloat(value)
            IN /\ (~EmptyValue(value) /\ col.type # "string" /\ col.range.has) =>
                    /\ Cardinality(CellErrsOf("min", i, c))
                         = (IF col.range.hasMin /\ n < col.range.min THEN 1 ELSE 0)
                    /\ Cardinality(CellErrsOf("max", i, c))
                         = (IF col.range.hasMax /\ n > col.range.max THEN 1 ELSE 0)
                    /\ \A e \in CellErrsOf("min", i, c) \cup CellErrsOf("max", i, c) :
                        /\ allErrors[e].type = "VALUE"
                        /\ allErrors[e].severity
                             = (IF col.range.strict THEN CRITICAL ELSE WARNING)
               /\ col.type = "string" =>
                    CellErrsOf("min", i, c) \cup CellErrsOf("max", i, c) = {}

\* 400 against {min 0, max 360}: CRITICAL 'too high' under the strict rule of
\* W, WARNING under the lenient rule of V; -5 is 'too low'; 400 in a string
\* column with a range rule gives nothing
C16_Witness ==
    /\ pc = "valuesDone"
    /\ Len(intervalData[tbl]) = 2
    /\ CellValue(1, 1) = Num(40000) /\ CellValue(1, 2) = Num(40000)
    /\ ValColumns[1].type # "string"
    /\ ValColumns[1].range.has /\ ~ValColumns[1].range.strict
    /\ \E e \in CellErrsOf("max", 1, 1) :
        /\ allErrors[e].severity = WARNING
        /\ allErrors[e].message = <<"Value Too High", Num(40000), Num(36000)>>
    /\ \E e \in CellErrsOf("max", 1, 2) : allErrors[e].severity = CRITICAL
    /\ CellValue(2, 1) = Num(-500)
    /\ \E e \in CellErrsOf("min", 2, 1) : allErrors[e].severity = WARNING

\* the same letters, whatever their case
FoldCase(str) ==
    CASE str = "QZ" -> "qz"
      [] str = "Qz" -> "qz"
      [] str = "XX" -> "xx"
      [] OTHER      -> str

\* the libraries the rule of column c names
LibrariesOf(c) ==
    {l \in 1..Len(libraries) : libraries[l].id = ValColumns[c].lookup.libraryId}

\* the value of a cell is one of the codes of a library
IsCode(value, library, caseSensitive) ==
    \E k \in 1..Len(library.items) :
        IF caseSensitive THEN library.items[k].code = ToStr(value)
        ELSE FoldCase(library.items[k].code) = FoldCase(ToStr(value))

\* C17: for a non-empty cell of a column of type 'string' whose lookup rule
\* names a library of the list, there is exactly one error 'invalid code',
\* CRITICAL and of type VALUE, iff the value is none of the library's codes,
\* compared without regard to case unless the rule is caseSensitive.
C17_LookupRule ==
    pc = "valuesDone" =>
        \A i \in ValIdx, c \in ValColIdx :
            LET col   == ValColumns[c]
                value == CellValue(i, c)
            IN (/\ ~EmptyValue(value) /\ col.type = "string"
                /\ col.lookup.has /\ LibrariesOf(c) # {}) =>
                   LET l == CHOOSE x \in LibrariesOf(c) : \A y \in LibrariesOf(c) : x <= y
                   IN /\ Cardinality(CellErrsOf("lookup", i, c))
                           = (IF IsCode(value, libraries[l], col.lookup.caseSensitive)
                              THEN 0 ELSE 1)
                      /\ \A e \in CellErrsOf("lookup", i, c) :
                           /\ allErrors[e].severity = CRITICAL
                           /\ allErrors[e].type = "VALUE"
                           /\ allErrors[e].message[1] = "Invalid Code"

\* library lith with the code QZ, caseSensitive false: 'qz' passes, 'XX'
\* gives one error
C17_Witness ==
    /\ pc = "valuesDone"
    /\ ValColumns[1].type = "string"
    /\ ValColumns[1].lookup = [has |-> TRUE, libraryId |-> "lith", caseSensitive |-> FALSE]
    /\ libraries[1].id = "lith" /\ libraries[1].items = <<[code |-> "QZ"]>>
    /\ Len(intervalData[tbl]) = 2
    /\ CellValue(1, 1) = Str("qz") /\ CellErrs(1, 1) = {}
    /\ CellValue(2, 1) = Str("XX") /\ Cardinality(CellErrs(2, 1)) = 1
    /\ \E e \in CellErrsOf("lookup", 2, 1) :
        allErrors[e].message = <<"Invalid Code", Str("XX"), Str("Lithology")>>

\* C18: a column whose lookup rule names a library that is not in the list
\* gets no lookup error, whatever the value of the cell.
C18_UnknownLibrarySkipped ==
    pc = "valuesDone" =>
        \A i \in ValIdx, c \in ValColIdx :
            (ValColumns[c].lookup.has /\ LibrariesOf(c) = {}) =>
                CellErrsOf("lookup", i, c) = {}

\* a string column checked against the missing library 'gone': the value XX,
\* a code of no library, passes
C18_Witness ==
    /\ pc = "valuesDone"
    /\ ValColumns[1].type = "string"
    /\ ValColumns[1].lookup.has /\ ValColumns[1].lookup.libraryId = "gone"
    /\ LibrariesOf(1) = {}
    /\ \E i \in ValIdx : CellValue(i, 1) = Str("XX") /\ CellErrs(i, 1) = {}

-----------------------------------------------------------------------------
(* Properties of the aggregation                                           *)

\* two errors of the combined list fall into the same group
SameGroup(a, b) ==
    /\ a.table = b.table /\ a.siteId = b.siteId /\ a.column = b.column
    /\ a.type = b.type /\ a.severity = b.severity /\ a.id[1] = b.id[1]

GroupOf(i) == {j \in ErrIdx : SameGroup(allErrors[i], allErrors[j])}

\* the errors that open a group
Leaders == {i \in ErrIdx : \A j \in GroupOf(i) : i <= j}

\* the row ids of the errors of S from position `from` on, comma-joined
RECURSIVE RowIdList(_, _)
RowIdList(S, from) ==
    IF \A j \in S : j < from THEN ""
    ELSE IF from \in S
         THEN allErrors[from].rowId \o (IF \E j \in S : j > from THEN "," ELSE "")
              \o RowIdList(S, from + 1)
         ELSE RowIdList(S, from + 1)

\* the message of a group of n errors of a category on a site
GroupMessage(category, n, siteId) ==
    CASE category = "eoh"    -> <<"intervals exceeded EOH on site", Num(n), siteId>>
      [] category = "eohbot" -> <<"bottom-of-hole coverage issues on site", Num(n), siteId>>
      [] OTHER               -> <<"Multiple similar errors on site", siteId>>

\* the entry the group opened by error i is reported as
GroupEntry(i) ==
    LET first == allErrors[i] IN
    IF Cardinality(GroupOf(i)) > 1
    THEN [id |-> first.id, table |-> first.table, siteId |-> first.siteId,
          column |-> first.column, severity |-> first.severity, type |-> first.type,
          rowId |-> RowIdList(GroupOf(i), 1),
          message |-> GroupMessage(first.id[1], Cardinality(GroupOf(i)), first.siteId)]
    ELSE first

\* C19: the Summary lists one entry per group of the combined error list,
\* the groups being the errors that agree on table, siteId, column, type,
\* severity and id prefix: a group of several errors is reported as its first
\* member with the row ids of all members comma-joined in order of occurrence
\* and the message of its category, a group of one as that error unchanged.
C19_GroupedEntries ==
    pc = "done" =>
        /\ Len(FinalErrors) = Cardinality(Leaders)
        /\ \A i \in Leaders : \E f \in FinalIdx : FinalErrors[f] = GroupEntry(i)

\* two rows of site A beyond its END_DEPTH in one table: one entry for both,
\* next to an entry that stands for a single error
C19_Witness ==
    /\ pc = "done"
    /\ Cardinality({i \in ErrIdx : allErrors[i].id[1] = "eoh"}) = 2
    /\ \E f \in FinalIdx :
        /\ FinalErrors[f].id = <<"eoh", tbl, "r1">>
        /\ FinalErrors[f].rowId = "r1,r2"
        /\ FinalErrors[f].message = <<"intervals exceeded EOH on site", Num(2), Str("A")>>
    /\ Cardinality({f \in FinalIdx : FinalErrors[f].id[1] = "eoh"}) = 1
    /\ \E i \in Leaders : GroupOf(i) = {i} /\ \E f \in FinalIdx : FinalErrors[f] = allErrors[i]

\* C20: totalErrors is the number of CRITICAL entries of the aggregated list
\* and totalWarnings the number of its WARNING entries, a group of several
\* raw errors counting once.
C20_TotalsAfterAggregation ==
    pc = "done" =>
        /\ summary.totalErrors
             = Cardinality({f \in FinalIdx : FinalErrors[f].severity = CRITICAL})
        /\ summary.totalWarnings
             = Cardinality({f \in FinalIdx : FinalErrors[f].severity = WARNING})

\* more CRITICAL errors were raised than totalErrors counts, some of them
\* having been grouped, next to a WARNING that stands alone
C20_Witness ==
    /\ pc = "done"
    /\ Cardinality({i \in ErrIdx : allErrors[i].severity = CRITICAL}) > summary.totalErrors
    /\ Cardinality({i \in ErrIdx : allErrors[i].severity = WARNING}) = summary.totalWarnings
    /\ summary.totalErrors > 1 /\ summary.totalWarnings > 0

-----------------------------------------------------------------------------
(* The Survey step of runValidation on its own                             *)

MaxSvCollars == 2
MaxSvRows == 2

SvCollarRows ==
    {[SITE_ID |-> Str("A"), END_DEPTH |-> d] : d \in {Num(10000), Num(5000), Str("abc")}}
    \cup {[SITE_ID |-> Str("B"), END_DEPTH |-> Num(10000)], [SITE_ID |-> Str("A")]}

SvRows ==
    {[SITE_ID |-> Str("A"), DEPTH |-> d] :
        d \in {Num(0), Num(5000), Num(5001), Num(10000), Num(10001), Str("105")}}
    \cup {[SITE_ID |-> Str("B"), DEPTH |-> Num(10001)],
          [SITE_ID |-> Str("X"), DEPTH |-> Num(20000)],
          [SITE_ID |-> Str("A")]}

InitSurvey ==
    /\ tbl = "LITHOLOGY"
    /\ collarData \in {WithIds(c) : c \in SeqsUpTo(SvCollarRows, MaxSvCollars)}
    /\ surveyData \in {WithIds(r) : r \in SeqsUpTo(SvRows, MaxSvRows)}
    /\ intervalData = NoIntervals
    /\ configs \in {RunConfigs(TableOrder, S) : S \in SUBSET {SURVEY}}
    /\ libraries = <<>> /\ snapshot = <<>> /\ allErrors = <<>>
    /\ summary = NoSummary /\ firstSummary = NoSummary /\ runNo = 1
    /\ pc = "survey"

NextSurvey == SurveyChecks

SpecSurvey == InitSurvey /\ [][NextSurvey]_vars

SvIdx == 1..Len(surveyData)
SvSite(i) == Get(surveyData[i], "SITE_ID")
SvDepth(i) == safeFloat(Get(surveyData[i], "DEPTH"))

\* the Survey depth errors reported for row i
SvDepthErrs(i) ==
    {e \in ErrIdx : /\ allErrors[e].id[1] = "eoh" /\ allErrors[e].id[2] = "surv"
                    /\ allErrors[e].rowId = RowId(i)}

\* C21: a Survey row gets one CRITICAL LOGIC error on DEPTH, in table
\* SURVEY, if its SITE_ID is in Collar and its DEPTH is greater than the
\* coerced END_DEPTH of that hole, by however little, and none otherwise.
C21_SurveyDepth ==
    pc = IntervalTables[1] =>
        \A i \in SvIdx :
            /\ Cardinality(SvDepthErrs(i))
                 = (IF KnownSite(SvSite(i)) /\ SvDepth(i) > EndDepthOf(SvSite(i))
                    THEN 1 ELSE 0)
            /\ \A e \in SvDepthErrs(i) :
                /\ allErrors[e].severity = CRITICAL /\ allErrors[e].type = "LOGIC"
                /\ allErrors[e].column = "DEPTH" /\ allErrors[e].table = SURVEY

\* END_DEPTH 100: a Survey point at 100.01 is reported, one at 100 is not
C21_Witness ==
    /\ pc = IntervalTables[1]
    /\ Len(collarData) = 1 /\ EndDepthOf(Str("A")) = 10000
    /\ Len(surveyData) = 2
    /\ SvSite(1) = Str("A") /\ SvDepth(1) = 10001 /\ Cardinality(SvDepthErrs(1)) = 1
    /\ SvSite(2) = Str("A") /\ SvDepth(2) = 10000 /\ SvDepthErrs(2) = {}

-----------------------------------------------------------------------------
(* The passes in another order                                             *)

\* the combined list when the passes are concatenated in a given order
RECURSIVE concatPasses(_)
concatPasses(order) ==
    IF order = <<>> THEN <<>>
    ELSE passErrors(Head(order)) \o concatPasses(Tail(order))

\* the orders of the passes over the tables that hold rows or rule sets; the
\* passes over the other tables add nothing wherever they stand
PassOrders ==
    {o \in [1..3 -> {COLLAR, SURVEY, tbl}] : \A i, j \in 1..3 : o[i] = o[j] => i = j}

\* C22: whatever the order in which the lists of the passes are concatenated
\* before the one aggregation, the Summary has the same set of entries and
\* the same totalErrors and totalWarnings as the Summary runValidation
\* returns; the entries may stand in another order.
C22_PassOrderIrrelevant ==
    pc = "done" =>
        \A o \in PassOrders :
            LET other == makeSummary(groupErrors(concatPasses(o)))
            IN /\ Range(other.errors) = Range(summary.errors)
               /\ Len(other.errors) = Len(summary.errors)
               /\ other.totalErrors = summary.totalErrors
               /\ other.totalWarnings = summary.totalWarnings

\* all three passes report, the orphans of two tables are grouped table by
\* table, and with the interval table first the entries stand in another
\* order
C22_Witness ==
    /\ pc = "done"
    /\ \A t \in {COLLAR, SURVEY, tbl} : \E f \in FinalIdx : FinalErrors[f].table = t
    /\ \E f, g \in FinalIdx :
        /\ FinalErrors[f].type = "INTEGRITY" /\ FinalErrors[f].table = SURVEY
        /\ FinalErrors[f].rowId = "r1,r3"
        /\ FinalErrors[g].type = "INTEGRITY" /\ FinalErrors[g].table = tbl
        /\ FinalErrors[g].rowId = "r1,r2"
    /\ groupErrors(concatPasses(<<tbl, SURVEY, COLLAR>>)) # FinalErrors
    /\ Range(groupErrors(concatPasses(<<tbl, SURVEY, COLLAR>>))) = Range(FinalErrors)

-----------------------------------------------------------------------------
(* The order of the entries of the Summary                                 *)

\* Collar, then Survey, then the interval tables
TableRank(table) == CASE table = COLLAR -> 0 [] table = SURVEY -> 1 [] OTHER -> 2

\* Structure, Integrity, EOH, Geometry, Value
TypeRank(type) ==
    CASE type = "STRUCTURE" -> 0
      [] type = "INTEGRITY" -> 1
      [] type = "LOGIC"     -> 2
      [] type = "INTERVAL"  -> 3
      [] OTHER              -> 4

\* C23: in Summary.errors the entries of COLLAR stand before those of
\* SURVEY, which stand before those of the interval tables, and among the
\* entries of one interval table the STRUCTURE entries stand before the
\* INTEGRITY entries, those before the LOGIC entries, those before the
\* INTERVAL entries and those before the VALUE entries.
C23_EntryOrder ==
    pc = "done" =>
        \A f, g \in FinalIdx :
            /\ TableRank(FinalErrors[f].table) < TableRank(FinalErrors[g].table) => f < g
            /\ (/\ FinalErrors[f].table = FinalErrors[g].table
                /\ FinalErrors[f].table \in IntervalTableSet
                /\ TypeRank(FinalErrors[f].type) < TypeRank(FinalErrors[g].type)) => f < g

\* entries of Collar, of Survey and of all five types of one interval table
C23_Witness ==
    /\ pc = "done"
    /\ \E f \in FinalIdx : FinalErrors[f].table = COLLAR
    /\ \E f \in FinalIdx : FinalErrors[f].table = SURVEY
    /\ \A type \in {"STRUCTURE", "INTEGRITY", "LOGIC", "INTERVAL", "VALUE"} :
        \E f \in FinalIdx : FinalErrors[f].table = tbl /\ FinalErrors[f].type = type

-----------------------------------------------------------------------------
(* validateGenericInterval on cells that are no numbers                    *)

MaxCoRows == 2

CoCollars ==
    {<<[SITE_ID |-> Str("A"), END_DEPTH |-> Num(10000)]>>,
     <<[SITE_ID |-> Str("A"), END_DEPTH |-> Str("abc")]>>,
     <<[SITE_ID |-> Str("A"), END_DEPTH |-> Num(0)]>>}

CoRows ==
    {[SITE_ID |-> Str("A"), DEPTH_FROM |-> from, DEPTH_TO |-> to, V |-> v] :
        from \in {Num(0), Str("abc"), Num(1000)},
        to \in {Num(1000), Str("abc"), Num(10500)},
        v \in {Str("abc"), Num(40000)}}

\* the column V is numeric and range-checked
CoColumns ==
    {RunColumns("LITHOLOGY") \o <<Col("V", FALSE, FALSE, "float", r, NoLookup)>> :
        r \in {[has |-> TRUE, hasMin |-> TRUE, min |-> 0, hasMax |-> TRUE,
                max |-> 36000, strict |-> TRUE],
               [has |-> TRUE, hasMin |-> TRUE, min |-> 100, hasMax |-> FALSE,
                max |-> 0, strict |-> FALSE]}}

InitCoerce ==
    /\ tbl = "LITHOLOGY"
    /\ collarData \in {WithIds(c) : c \in CoCollars}
    /\ surveyData = <<>>
    /\ intervalData \in {OnlyTable(tbl, WithIds(r)) : r \in SeqsUpTo(CoRows, MaxCoRows)}
    /\ configs \in {<<TableConfig(tbl, c)>> : c \in CoColumns}
    /\ libraries = <<>> /\ snapshot = <<>> /\ allErrors = <<>>
    /\ summary = NoSummary /\ firstSummary = NoSummary /\ runNo = 1
    /\ pc = "callGeneric"

CallValidateGenericInterval ==
    /\ pc = "callGeneric"
    /\ allErrors' = intervalErrors(tbl)
    /\ pc' = "genericDone"
    /\ UNCHANGED <<collarData, surveyData, intervalData, configs, libraries,
                   snapshot, summary, firstSummary, runNo, tbl>>

NextCoerce == CallValidateGenericInterval

SpecCoerce == InitCoerce /\ [][NextCoerce]_vars

\* a string that is no number
NonNumeric(value) == value.k = "str" /\ value.s = "abc"

\* the table with 0 written into every numeric cell that holds no number
Zeroed(rows, fields) ==
    [i \in 1..Len(rows) |->
        [f \in DOMAIN rows[i] |->
            IF f \in fields /\ NonNumeric(rows[i][f]) THEN Num(0) ELSE rows[i][f]]]

\* the checks of an interval table on given tables
GenericOn(collars, rows, config) ==
    validateStructure(rows, config)
    \o validateIntegrity(collars, rows, tbl)
    \o validateEOH(collars, rows, tbl)
    \o validateIntervals(rows, tbl)
    \o validateValues(rows, config, libraries)

\* C24: a cell that holds no number is evaluated as 0 and raises nothing of
\* its own: the Structure, Integrity, EOH, Geometry and Value checks of a
\* table report exactly what they report when every non-numeric END_DEPTH,
\* DEPTH_FROM, DEPTH_TO and range-checked cell holds 0 instead.
C24_NonNumericIsZero ==
    pc = "genericDone" =>
        allErrors = GenericOn(Zeroed(collarData, {"END_DEPTH"}),
                              Zeroed(intervalData[tbl], {"DEPTH_FROM", "DEPTH_TO", "V"}),
                              configs[1])

\* 'abc' passes the range 0..360 in one row; in the other row 'abc' as
\* DEPTH_FROM and as DEPTH_TO makes a zero-length interval
C24_Witness ==
    /\ pc = "genericDone"
    /\ configs[1].columns[4].range.min = 0 /\ configs[1].columns[4].range.hasMax
    /\ Len(intervalData[tbl]) = 2
    /\ \A i \in 1..2 : NonNumeric(Get(intervalData[tbl][i], "V"))
    /\ \A e \in ErrIdx : allErrors[e].column # "V"
    /\ NonNumeric(Get(intervalData[tbl][2], "DEPTH_FROM"))
    /\ NonNumeric(Get(intervalData[tbl][2], "DEPTH_TO"))
    /\ \E e \in ErrIdx : allErrors[e].id = <<"zero", tbl, "r2">>
    /\ NonNumeric(Get(collarData[1], "END_DEPTH"))

-----------------------------------------------------------------------------
(* The aggregation as a partition                                          *)

\* the raw errors an entry of the Summary stands for
MembersOf(f) == {i \in ErrIdx : SameGroup(allErrors[i], FinalErrors[f])}

RECURSIVE SumMembers(_)
SumMembers(f) == IF f = 0 THEN 0 ELSE Cardinality(MembersOf(f)) + SumMembers(f - 1)

\* C27: every raw error gives its row id to exactly one entry of the
\* Summary, the entries list as many row ids as there are raw errors, no two
\* entries have the same (table, siteId, column, type, severity, category),
\* and aggregating the aggregated list again returns it unchanged.
C27_AggregationPartitions ==
    pc = "done" =>
        /\ \A i \in ErrIdx : Cardinality({f \in FinalIdx : i \in MembersOf(f)}) = 1
        /\ \A f \in FinalIdx : FinalErrors[f].rowId = RowIdList(MembersOf(f), 1)
        /\ SumMembers(Len(FinalErrors)) = Len(allErrors)
        /\ \A f, g \in FinalIdx : SameGroup(FinalErrors[f], FinalErrors[g]) => f = g
        /\ groupErrors(FinalErrors) = FinalErrors

\* fewer entries than raw errors: an entry for two errors next to entries
\* for one
C27_Witness ==
    /\ pc = "done"
    /\ Len(FinalErrors) < Len(allErrors)
    /\ \E f, g \in FinalIdx :
        Cardinality(MembersOf(f)) = 2 /\ Cardinality(MembersOf(g)) = 1
    /\ groupErrors(FinalErrors) = FinalErrors

-----------------------------------------------------------------------------
(* Severities                                                              *)

\* C28: no error of severity INFO is ever raised, so totalErrors and
\* totalWarnings add up to the number of entries of the Summary; every
\* STRUCTURE entry and every INTEGRITY entry is CRITICAL.
C28_NoInfo ==
    /\ \A e \in ErrIdx : allErrors[e].severity \in {CRITICAL, WARNING}
    /\ pc = "done" =>
         /\ \A f \in FinalIdx : FinalErrors[f].severity \in {CRITICAL, WARNING}
         /\ summary.totalErrors + summary.totalWarnings = Len(FinalErrors)
         /\ \A f \in FinalIdx :
              FinalErrors[f].type \in {"STRUCTURE", "INTEGRITY"}
              => FinalErrors[f].severity = CRITICAL

\* a Summary with STRUCTURE and INTEGRITY entries and with warnings
C28_Witness ==
    /\ pc = "done"
    /\ \E f \in FinalIdx : FinalErrors[f].type = "STRUCTURE"
    /\ \E f \in FinalIdx : FinalErrors[f].type = "INTEGRITY"
    /\ summary.totalWarnings > 0 /\ summary.totalErrors > 0
    /\ summary.totalErrors + summary.totalWarnings = Len(FinalErrors)

-----------------------------------------------------------------------------
(* The Collar step of runValidation on its own                             *)

MaxClRows == 2

ClRows ==
    {[SITE_ID |-> Str("A"), END_DEPTH |-> d] :
        d \in {Num(10000), Num(1), Num(0), Num(-1000), Str("abc"), Str("50")}}
    \cup {[SITE_ID |-> Str("B")]}

InitCollar ==
    /\ tbl = "LITHOLOGY"
    /\ collarData \in {WithIds(c) : c \in SeqsUpTo(ClRows, MaxClRows)}
    /\ surveyData = <<>>
    /\ intervalData = NoIntervals
    /\ configs \in {RunConfigs(TableOrder, S) : S \in SUBSET {COLLAR}}
    /\ libraries = <<>> /\ snapshot = <<>> /\ allErrors = <<>>
    /\ summary = NoSummary /\ firstSummary = NoSummary /\ runNo = 1
    /\ pc = "collar"

NextCollar == CollarChecks

SpecCollar == InitCollar /\ [][NextCollar]_vars

ClIdx == 1..Len(collarData)
ClDepth(i) == safeFloat(Get(collarData[i], "END_DEPTH"))

\* the 'collar-depth' errors reported for Collar row i
ClDepthErrs(i) ==
    {e \in ErrIdx : allErrors[e].id[1] = "collar" /\ allErrors[e].rowId = RowId(i)}

\* C29: with a COLLAR rule set, every Collar row whose END_DEPTH coerces to
\* a value <= 0, one without END_DEPTH or with a non-numeric one included,
\* gets one CRITICAL VALUE error on END_DEPTH with id prefix 'collar', and a
\* row with END_DEPTH > 0 gets none; without a COLLAR rule set no row gets
\* one.
C29_CollarDepth ==
    pc = "survey" =>
        \A i \in ClIdx :
            /\ Cardinality(ClDepthErrs(i))
                 = (IF Configured(COLLAR) /\ ClDepth(i) <= 0 THEN 1 ELSE 0)
            /\ \A e \in ClDepthErrs(i) :
                /\ allErrors[e].severity = CRITICAL /\ allErrors[e].type = "VALUE"
                /\ allErrors[e].column = "END_DEPTH" /\ allErrors[e].table = COLLAR

\* a row with END_DEPTH 0 and a row without END_DEPTH, one error each
C29_Witness ==
    /\ pc = "survey"
    /\ Configured(COLLAR)
    /\ Len(collarData) = 2
    /\ Get(collarData[1], "END_DEPTH") = Num(0) /\ Cardinality(ClDepthErrs(1)) = 1
    /\ Get(collarData[2], "END_DEPTH") = Undef /\ Cardinality(ClDepthErrs(2)) = 1

-----------------------------------------------------------------------------
(* runValidation under the default rule sets                               *)

MaxDfCollars == 2
MaxDfRows == 2

DfKeyColumns(depths) ==
    <<Col("SITE_ID", TRUE, TRUE, "string", NoRange, NoLookup)>>
    \o [i \in 1..Len(depths) |-> Col(depths[i], TRUE, TRUE, "float", NoRange, NoLookup)]

\* defaultConfigs: the Collar depth column is TOTAL_DEPTH
defaultConfigs ==
    <<TableConfig(COLLAR, DfKeyColumns(<<"TOTAL_DEPTH">>)),
      TableConfig(SURVEY, DfKeyColumns(<<"DEPTH", "AZIMUTH", "DIP">>))>>
    \o [i \in 1..7 |-> TableConfig(IntervalTables[i], DfKeyColumns(<<"DEPTH_FROM", "DEPTH_TO">>))]

DfCollarRows ==
    {[SITE_ID |-> Str("A"), TOTAL_DEPTH |-> Num(10000)],
     [SITE_ID |-> Str("B"), TOTAL_DEPTH |-> Num(5000)],
     [SITE_ID |-> Str("C"), TOTAL_DEPTH |-> Num(10000), END_DEPTH |-> Num(10000)]}

DfIntervalRows ==
    {[SITE_ID |-> Str("A"), DEPTH_FROM |-> Num(0), DEPTH_TO |-> Num(1000)],
     [SITE_ID |-> Str("A"), DEPTH_FROM |-> Num(1000), DEPTH_TO |-> Num(99999900)],
     [SITE_ID |-> Str("B"), DEPTH_FROM |-> Num(0), DEPTH_TO |-> Num(10500)],
     [SITE_ID |-> Str("C"), DEPTH_FROM |-> Num(0), DEPTH_TO |-> Num(10500)]}

InitDefaults ==
    /\ tbl \in {"LITHOLOGY", "VEIN"}
    /\ collarData \in {WithIds(c) : c \in SeqsUpTo(DfCollarRows, MaxDfCollars)}
    /\ surveyData = <<>>
    /\ intervalData \in {OnlyTable(tbl, WithIds(r)) : r \in SeqsUpTo(DfIntervalRows, MaxDfRows)}
    /\ configs = defaultConfigs
    /\ libraries = <<>>
    /\ snapshot = [collarData |-> collarData, surveyData |-> surveyData,
                   intervalData |-> intervalData, configs |-> configs,
                   libraries |-> libraries]
    /\ allErrors = <<>>
    /\ summary = NoSummary /\ firstSummary = NoSummary /\ runNo = 1
    /\ pc = "collar"

SpecDefaults == InitDefaults /\ [][Next]_vars

\* a Collar row as the default COLLAR rule set wants it: SITE_ID and a
\* positive TOTAL_DEPTH, and no END_DEPTH field
DfDefaultRow(i) ==
    /\ Truthy(Get(collarData[i], "SITE_ID"))
    /\ safeFloat(Get(collarData[i], "TOTAL_DEPTH")) > 0
    /\ "END_DEPTH" \notin DOMAIN collarData[i]

DfErrsOfCollar(i) ==
    {e \in ErrIdx : allErrors[e].table = COLLAR /\ allErrors[e].rowId = RowId(i)}

\* C30: under defaultConfigs a Collar row with SITE_ID and a positive
\* TOTAL_DEPTH and without END_DEPTH brings no STRUCTURE and no
\* mandatory-value error, yet gets the CRITICAL VALUE 'collar-depth' error;
\* the END_DEPTH of its hole reads as 0 and no row of the hole in an interval
\* table gets a per-row 'depth exceeded' error, whatever its DEPTH_TO.
C30_DefaultCollarDepthColumn ==
    pc = "done" =>
        \A i \in ClIdx :
            DfDefaultRow(i) =>
                /\ i = 1 => \A e \in ErrIdx :
                               ~(allErrors[e].table = COLLAR /\ allErrors[e].type = "STRUCTURE")
                /\ \A e \in DfErrsOfCollar(i) : allErrors[e].id[1] # "req"
                /\ Cardinality(ClDepthErrs(i)) = 1
                /\ \A e \in ClDepthErrs(i) :
                     /\ allErrors[e].id[2] = "depth" /\ allErrors[e].table = COLLAR
                     /\ allErrors[e].severity = CRITICAL /\ allErrors[e].type = "VALUE"
                /\ collarData[i] = LastCollarOf(Get(collarData[i], "SITE_ID")) =>
                     /\ EndDepthOf(Get(collarData[i], "SITE_ID")) = 0
                     /\ \A t \in IntervalTableSet : \A r \in 1..Len(intervalData[t]) :
                          Get(intervalData[t][r], "SITE_ID") = Get(collarData[i], "SITE_ID")
                          => ~\E e \in ErrIdx : /\ allErrors[e].id[1] = "eoh"
                                                /\ allErrors[e].table = t
                                                /\ allErrors[e].rowId = RowId(r)

\* hole A, TOTAL_DEPTH 100 and no END_DEPTH, has an interval down to
\* 999999: the Collar row is reported, the interval is not; hole C with
\* END_DEPTH 100 has its interval down to 105 reported
C30_Witness ==
    /\ pc = "done"
    /\ Len(collarData) = 2 /\ DfDefaultRow(1) /\ Get(collarData[1], "SITE_ID") = Str("A")
    /\ Get(collarData[2], "SITE_ID") = Str("C")
    /\ Cardinality(ClDepthErrs(1)) = 1 /\ ClDepthErrs(2) = {}
    /\ Len(intervalData[tbl]) = 2
    /\ Get(intervalData[tbl][1], "SITE_ID") = Str("A")
    /\ Get(intervalData[tbl][1], "DEPTH_TO") = Num(99999900)
    /\ Get(intervalData[tbl][2], "SITE_ID") = Str("C")
    /\ \E e \in ErrIdx : allErrors[e].id = <<"eoh", tbl, "r2">>
    /\ ~\E e \in ErrIdx : allErrors[e].id = <<"eoh", tbl, "r1">>

====
